---- MODULE Spec2Model ----
(***************************************************************************)
(* Model of the transformation engine web_app/src/utils/processData.ts:    *)
(* value normalisation (cleanValue), record filtering and deduplication    *)
(* (filterData) and the aggregations built on them.  Every engine function *)
(* is pure; a behaviour of the model is one call: the caller's record      *)
(* collection is `data`, an action picks the remaining arguments, applies  *)
(* the function and stores what it returns.                                *)
(*                                                                         *)
(* Numbers: the inputs are integers, so every sum is an integer; means,    *)
(* ratios and thresholds are kept as exact fractions [num, den] and a      *)
(* standard deviation as the square root of an exact fraction.  IEEE       *)
(* rounding of doubles is not modelled.                                    *)
(***************************************************************************)
EXTENDS Integers, Sequences, FiniteSets, TLC

VARIABLES
    data,     \* the record collection handed to the engine (any[])
    args,     \* the other arguments of the call
    called,   \* "none" before the call, then the name of the function called
    output    \* the value the call returned

vars == <<data, args, called, output>>

-----------------------------------------------------------------------------
(* Bounds of the model *)

\* longest input collection of the free-form inputs
MaxRecs == 3
\* longest raw string handed to cleanValue
MaxStrLen == 5

-----------------------------------------------------------------------------
(* JavaScript values: numbers (integers here), NaN, strings (sequences of  *)
(* one-character strings) and undefined.                                   *)

Num(n) == [t |-> "num", n |-> n]
NaN == [t |-> "nan"]
Str(s) == [t |-> "str", s |-> s]
Undef == [t |-> "undef"]

\* ToBoolean: 0, NaN, "" and undefined are falsy
Truthy(v) ==
    CASE v.t = "num" -> v.n # 0
      [] v.t = "str" -> v.s # <<>>
      [] OTHER -> FALSE

\* a || b
OrElse(a, b) == IF Truthy(a) THEN a ELSE b

\* a field of type string that the record does not have
Absent == "<undefined>"

\* ToBoolean of a string-valued field: undefined and "" are falsy
TruthyLabel(l) == l # Absent /\ l # ""

-----------------------------------------------------------------------------
(* String helpers *)

RECURSIVE TrimStart(_)
TrimStart(s) == IF s # <<>> /\ Head(s) = " " THEN TrimStart(Tail(s)) ELSE s

RECURSIVE TrimEnd(_)
TrimEnd(s) ==
    IF s # <<>> /\ s[Len(s)] = " " THEN TrimEnd(SubSeq(s, 1, Len(s) - 1)) ELSE s

\* String.prototype.trim
Trim(s) == TrimEnd(TrimStart(s))

UpperLetters ==
    {"A","B","C","D","E","F","G","H","I","J","K","L","M",
     "N","O","P","Q","R","S","T","U","V","W","X","Y","Z"}
LowerLetters ==
    {"a","b","c","d","e","f","g","h","i","j","k","l","m",
     "n","o","p","q","r","s","t","u","v","w","x","y","z"}

\* /^\([A-Z]\)$/i
MatchesSuppressionCode(s) ==
    /\ Len(s) = 3
    /\ s[1] = "("
    /\ s[2] \in UpperLetters \cup LowerLetters
    /\ s[3] = ")"

\* ['-', '--', 'NA', 'N/A', 'null', 'None']
PlaceholderTokens ==
    { <<"-">>, <<"-","-">>, <<"N","A">>, <<"N","/","A">>,
      <<"n","u","l","l">>, <<"N","o","n","e">> }

\* str.replace(/,/g, '')
RemoveCommas(s) == SelectSeq(s, LAMBDA c : c # ",")

DigitValue(c) ==
    CASE c = "0" -> 0 [] c = "1" -> 1 [] c = "2" -> 2 [] c = "3" -> 3
      [] c = "4" -> 4 [] c = "5" -> 5 [] c = "6" -> 6 [] c = "7" -> 7
      [] c = "8" -> 8 [] c = "9" -> 9
Digits == {"0","1","2","3","4","5","6","7","8","9"}

\* the longest prefix of s made of digits
RECURSIVE DigitPrefix(_)
DigitPrefix(s) ==
    IF s # <<>> /\ Head(s) \in Digits THEN <<Head(s)>> \o DigitPrefix(Tail(s)) ELSE <<>>

RECURSIVE DigitsToInt(_, _)
DigitsToInt(s, acc) ==
    IF s = <<>> THEN acc ELSE DigitsToInt(Tail(s), 10 * acc + DigitValue(Head(s)))

\* parseFloat on strings without '.', 'e' or "Infinity": leading white space is
\* skipped, an optional sign and the longest run of digits are read, the rest of
\* the string is ignored; no digit at all gives NaN
parseFloat(s) ==
    LET t == TrimStart(s)
        signed == t # <<>> /\ Head(t) \in {"-", "+"}
        body == IF signed THEN Tail(t) ELSE t
        ds == DigitPrefix(body)
        mag == DigitsToInt(ds, 0)
    IN  IF ds = <<>> THEN NaN
        ELSE IF signed /\ Head(t) = "-" THEN Num(0 - mag) ELSE Num(mag)

-----------------------------------------------------------------------------
(* cleanValue *)

\* cleanValue without the early return for falsy input: the empty string
\* reaches the test str === '' and becomes 0
cleanValueNoFalsyGuard(val) ==
    IF val.t \in {"num", "nan"} THEN val
    ELSE IF val.t = "undef" THEN NaN
    ELSE LET str == Trim(val.s)
         IN  IF str = <<>> \/ str = <<"0">> THEN Num(0)
             ELSE IF MatchesSuppressionCode(str) THEN NaN
             ELSE IF str \in PlaceholderTokens THEN NaN
             ELSE parseFloat(RemoveCommas(str))

cleanValue(val) ==
    IF val.t \in {"num", "nan"} THEN val
    ELSE IF ~Truthy(val) THEN NaN
    ELSE LET str == Trim(val.s)
         IN  IF str = <<>> \/ str = <<"0">> THEN Num(0)
             ELSE IF MatchesSuppressionCode(str) THEN NaN
             ELSE IF str \in PlaceholderTokens THEN NaN
             ELSE parseFloat(RemoveCommas(str))

-----------------------------------------------------------------------------
(* Inputs of cleanValue *)

CleanAlphabet == {"(", ")", "D", "d", " ", "-", "1", ","}

RawNumbers == {Num(0), Num(7), Num(-3), NaN, Undef}

-----------------------------------------------------------------------------
(* The call of cleanValue *)

InitClean ==
    /\ data = <<>>
    /\ args = [val |-> Undef]
    /\ called = "none"
    /\ output = Undef

CallCleanValue ==
    /\ called = "none"
    /\ \/ \E n \in 0..MaxStrLen : \E s \in [1..n -> CleanAlphabet] :
            /\ args' = [val |-> Str(s)]
            /\ output' = cleanValue(Str(s))
       \/ \E s \in PlaceholderTokens :
            /\ args' = [val |-> Str(s)]
            /\ output' = cleanValue(Str(s))
       \/ \E v \in RawNumbers :
            /\ args' = [val |-> v]
            /\ output' = cleanValue(v)
    /\ called' = "cleanValue"
    /\ UNCHANGED data

NextClean == CallCleanValue

SpecClean == InitClean /\ [][NextClean]_vars

-----------------------------------------------------------------------------
(* Statements about cleanValue *)

\* one letter in parentheses with nothing but blanks around it
IsParenthesisedLetter(s) ==
    \E k \in 1..(Len(s) - 2) :
        /\ s[k] = "("
        /\ s[k + 1] \in UpperLetters \cup LowerLetters
        /\ s[k + 2] = ")"
        /\ \A i \in 1..Len(s) : i \notin k..(k + 2) => s[i] = " "

IsNoValueString(s) ==
    \/ IsParenthesisedLetter(s)
    \/ s \in { <<"-">>, <<"-","-">>, <<"N","A">>, <<"N","/","A">>,
               <<"n","u","l","l">>, <<"N","o","n","e">>, <<>> }

(* C8: for every string that is a single letter in parentheses (any case,   *)
(* white space around it allowed), a placeholder token "-", "--", "NA",     *)
(* "N/A", "null", "None", or the empty string, cleanValue returns NaN and   *)
(* never a number, 0 included.                                              *)
C8_NoValueForSuppressed ==
    (called = "cleanValue" /\ args.val.t = "str" /\ IsNoValueString(args.val.s))
        => (output = NaN /\ output.t # "num")

C8_Witness ==
    /\ called = "cleanValue"
    /\ args.val = Str(<<" ", "(", "d", ")", " ">>)
    /\ output = NaN

-----------------------------------------------------------------------------
(* Records.  A record is a flat object; the fields the engine reads are    *)
(* state_alpha, year, commodity_desc, statisticcat_desc, unit_desc,        *)
(* source_desc, domain_desc, value_num and Value.                          *)

\* the characters of the labels that occur in the inputs
LabelChars(l) ==
    CASE l = "CORN" -> <<"C","O","R","N">>
      [] l = "SOY" -> <<"S","O","Y">>
      [] l = "WHEAT" -> <<"W","H","E","A","T">>
      [] l = "HAY" -> <<"H","A","Y">>
      [] l = "RYE" -> <<"R","Y","E">>
      [] l = "OATS" -> <<"O","A","T","S">>
      [] l = "RICE" -> <<"R","I","C","E">>
      [] l = "HOPS" -> <<"H","O","P","S">>
      [] l = "MINT" -> <<"M","I","N","T">>
      [] l = "FLAX" -> <<"F","L","A","X">>
      [] l = "PEAS" -> <<"P","E","A","S">>
      [] l = "TARO" -> <<"T","A","R","O">>
      [] l = "DILL" -> <<"D","I","L","L">>
      [] l = "KALE" -> <<"K","A","L","E">>
      [] l = "A" -> <<"A">>
      [] l = "B" -> <<"B">>
      [] l = "C" -> <<"C">>
      [] l = "D" -> <<"D">>
      [] l = "FARM OPERATIONS" -> <<"F","A","R","M"," ","O","P","E","R","A","T","I","O","N","S">>
      [] l = "CROP TOTALS" -> <<"C","R","O","P"," ","T","O","T","A","L","S">>
      [] l = "CATTLE, ALL CLASSES" -> <<"C","A","T","T","L","E",","," ","A","L","L"," ","C","L","A","S","S","E","S">>
      [] l = "TOTAL" -> <<"T","O","T","A","L">>
      [] l = "ALL CLASSES" -> <<"A","L","L"," ","C","L","A","S","S","E","S">>
      [] l = "AREA HARVESTED" -> <<"A","R","E","A"," ","H","A","R","V","E","S","T","E","D">>
      [] l = "Area Harvested" -> <<"A","r","e","a"," ","H","a","r","v","e","s","t","e","d">>
      [] l = "YIELD" -> <<"Y","I","E","L","D">>
      [] l = "IN" -> <<"I","N">>
      [] l = "in" -> <<"i","n">>
      [] l = "INDIANA" -> <<"I","N","D","I","A","N","A">>
      [] l = "Indiana" -> <<"I","n","d","i","a","n","a">>
      [] l = "TX" -> <<"T","X">>
      [] l = "tx" -> <<"t","x">>
      [] l = "ZZ" -> <<"Z","Z">>
      [] l = "LABOR" -> <<"L","A","B","O","R">>
      [] l = "SALES" -> <<"S","A","L","E","S">>
      [] l = "WAGE RATE" -> <<"W","A","G","E"," ","R","A","T","E">>
      [] l = "AREA PLANTED" -> <<"A","R","E","A"," ","P","L","A","N","T","E","D">>
      [] l = "PRODUCTION" -> <<"P","R","O","D","U","C","T","I","O","N">>
      [] l = "VALUE" -> <<"V","A","L","U","E">>

\* whether sub occurs in s as a contiguous run of characters
Includes(s, sub) ==
    \E i \in 0..(Len(s) - Len(sub)) : SubSeq(s, i + 1, i + Len(sub)) = sub

\* d.commodity_desc?.includes(text), undefined (falsy) for a missing label
LabelIncludes(l, text) == l # Absent /\ Includes(LabelChars(l), LabelChars(text))

\* cleanValue(d.value_num || d.Value)
ValueOf(d) == cleanValue(OrElse(d.value_num, d.Value))

-----------------------------------------------------------------------------
(* Sequence helpers: flattening, Map insertion order,                       *)
(* d3.group, d3.sum                                                        *)

\* the groups appended last group first
RECURSIVE FlattenLastFirst(_)
FlattenLastFirst(ss) ==
    IF ss = <<>> THEN <<>> ELSE FlattenLastFirst(Tail(ss)) \o Head(ss)

RECURSIVE Flatten(_)
Flatten(ss) == IF ss = <<>> THEN <<>> ELSE Head(ss) \o Flatten(Tail(ss))

Contains(s, x) == \E i \in 1..Len(s) : s[i] = x

\* the distinct elements of ks in the order of their first occurrence: the
\* iteration order of a Map or Set filled by walking ks
RECURSIVE Distinct(_)
Distinct(ks) ==
    IF ks = <<>> THEN <<>>
    ELSE LET front == Distinct(SubSeq(ks, 1, Len(ks) - 1))
             last == ks[Len(ks)]
         IN  IF Contains(front, last) THEN front ELSE Append(front, last)

\* the indices of s, in order, whose key in the parallel sequence keys is k
RECURSIVE IndicesOf(_, _, _)
IndicesOf(keys, k, i) ==
    IF i > Len(keys) THEN <<>>
    ELSE (IF keys[i] = k THEN <<i>> ELSE <<>>) \o IndicesOf(keys, k, i + 1)

\* d3.group(s, d => key) / a Map of arrays filled row by row; keys[i] is the
\* key of s[i]: the groups in insertion order, each with its rows in input order
Group(s, keys) ==
    LET ks == Distinct(keys)
    IN  [g \in 1..Len(ks) |->
            [key |-> ks[g],
             rows |-> LET ix == IndicesOf(keys, ks[g], 1)
                      IN  [j \in 1..Len(ix) |-> s[ix[j]]]]]

\* d3.sum(rows, d => cleanValue(d.value_num || d.Value)): NaN and 0 add nothing
RECURSIVE SumValues(_)
SumValues(rows) ==
    IF rows = <<>> THEN 0
    ELSE LET v == ValueOf(Head(rows))
         IN  (IF v.t = "num" THEN v.n ELSE 0) + SumValues(Tail(rows))

-----------------------------------------------------------------------------
(* filterData *)

\* Step 1 without the domain rule
PassesInclusionAnyDomain(d) ==
    /\ \/ ~TruthyLabel(d.source_desc)
       \/ d.source_desc = "SURVEY"
       \/ d.commodity_desc = "FARM OPERATIONS"
       \/ (d.statisticcat_desc = "SALES" /\ d.unit_desc = "$")
    /\ ~LabelIncludes(d.commodity_desc, "TOTAL")
    /\ ~LabelIncludes(d.commodity_desc, "ALL CLASSES")

\* Step 1: source, totals and domain rules
PassesInclusion(d) ==
    /\ \/ ~TruthyLabel(d.source_desc)
       \/ d.source_desc = "SURVEY"
       \/ d.commodity_desc = "FARM OPERATIONS"
       \/ (d.statisticcat_desc = "SALES" /\ d.unit_desc = "$")
    /\ ~LabelIncludes(d.commodity_desc, "TOTAL")
    /\ ~LabelIncludes(d.commodity_desc, "ALL CLASSES")
    /\ (d.domain_desc = "TOTAL" \/ ~TruthyLabel(d.domain_desc))

\* ${x || ''} for a string field
KeyPart(l) == IF TruthyLabel(l) THEN l ELSE ""

\* ${d.year || ''}
YearPart(y) == IF y = 0 THEN "" ELSE ToString(y)

\* the key of the Census/Survey overlap map
DedupKey(d) ==
    KeyPart(d.state_alpha) \o "|" \o YearPart(d.year) \o "|"
        \o KeyPart(d.commodity_desc) \o "|" \o KeyPart(d.statisticcat_desc)
        \o "|" \o KeyPart(d.unit_desc)

IsSurvey(r) == r.source_desc = "SURVEY"
IsCensus(r) == r.source_desc = "CENSUS"

\* Step 2 that drops CENSUS rows only, keeping every other row of the key
ResolveOverlapDropCensus(rows) ==
    LET hasSurvey == \E i \in 1..Len(rows) : IsSurvey(rows[i])
    IN  IF hasSurvey THEN SelectSeq(rows, LAMBDA r : ~IsCensus(r)) ELSE rows

\* Step 2, one key: keep only SURVEY rows when SURVEY and CENSUS overlap
ResolveOverlap(rows) ==
    LET hasSurvey == \E i \in 1..Len(rows) : IsSurvey(rows[i])
        hasCensus == \E i \in 1..Len(rows) : IsCensus(rows[i])
    IN  IF hasSurvey /\ hasCensus THEN SelectSeq(rows, IsSurvey) ELSE rows

filterData(d) ==
    IF Len(d) = 0 THEN <<>>
    ELSE LET basicFiltered == SelectSeq(d, PassesInclusion)
             keyMap == Group(basicFiltered,
                           [i \in 1..Len(basicFiltered) |->
                               DedupKey(basicFiltered[i])])
         IN  Flatten([i \in 1..Len(keyMap) |-> ResolveOverlap(keyMap[i].rows)])

-----------------------------------------------------------------------------
(* Inputs of filterData *)

BaseRecord ==
    [state_alpha |-> "IN", year |-> 2020, commodity_desc |-> "CORN",
     statisticcat_desc |-> "SALES", unit_desc |-> "$", source_desc |-> "SURVEY",
     domain_desc |-> "TOTAL", value_num |-> Num(1), Value |-> Undef]

Provenances == {Absent, "SURVEY", "CENSUS"}

FilterRecords ==
    {[BaseRecord EXCEPT !.statisticcat_desc = su[1], !.unit_desc = su[2],
                        !.source_desc = s] :
        su \in {<<"SALES", "$">>, <<"AREA HARVESTED", "ACRES">>},
        s \in Provenances}
    \cup {[BaseRecord EXCEPT !.commodity_desc = "FARM OPERATIONS",
                             !.statisticcat_desc = "OPERATIONS",
                             !.unit_desc = "OPERATIONS", !.source_desc = s] :
        s \in {"SURVEY", "CENSUS"}}
    \cup {[BaseRecord EXCEPT !.commodity_desc = c] :
        c \in {"CROP TOTALS", "CATTLE, ALL CLASSES"}}
    \cup {[BaseRecord EXCEPT !.domain_desc = dm] :
        dm \in {Absent, "ORGANIC STATUS"}}
    \cup {[BaseRecord EXCEPT !.year = 2021, !.source_desc = s] :
        s \in {"SURVEY", "CENSUS"}}

-----------------------------------------------------------------------------
(* The call of filterData *)

InitFilter ==
    /\ \E n \in 0..MaxRecs : data \in [1..n -> FilterRecords]
    /\ args = <<>>
    /\ called = "none"
    /\ output = <<>>

CallFilterData ==
    /\ called = "none"
    /\ called' = "filterData"
    /\ output' = filterData(data)
    /\ UNCHANGED <<data, args>>

NextFilter == CallFilterData

SpecFilter == InitFilter /\ [][NextFilter]_vars

-----------------------------------------------------------------------------
(* Statements about filterData *)

RowsOf(s) == {s[i] : i \in 1..Len(s)}

\* the composite key (state_alpha, year, commodity_desc, statisticcat_desc, unit_desc)
CompositeKey(r) ==
    <<r.state_alpha, r.year, r.commodity_desc, r.statisticcat_desc, r.unit_desc>>

\* rule 1: no provenance tag, SURVEY, FARM OPERATIONS, or SALES in $
Rule1(r) ==
    \/ r.source_desc \in {Absent, ""}
    \/ r.source_desc = "SURVEY"
    \/ r.commodity_desc = "FARM OPERATIONS"
    \/ (r.statisticcat_desc = "SALES" /\ r.unit_desc = "$")

\* rule 2: the labels of the inputs that contain "TOTAL" or "ALL CLASSES"
AggregateLabels == {"CROP TOTALS", "CATTLE, ALL CLASSES", "TOTAL", "ALL CLASSES"}
Rule2(r) == r.commodity_desc \notin AggregateLabels

\* rule 3: canonical domain
Rule3(r) == r.domain_desc \in {"TOTAL", Absent, ""}

Included(r) == Rule1(r) /\ Rule2(r) /\ Rule3(r)

(* C1: after filterData no composite key has both a SURVEY row and a CENSUS *)
(* row in the output; when the records passing the inclusion rules contain  *)
(* both provenances for a key, the output rows for that key are exactly the *)
(* SURVEY rows of that key (in input order).                                *)
C1_SurveyWinsOverlap ==
    called = "filterData" =>
        \A k \in {CompositeKey(data[i]) : i \in 1..Len(data)} :
            LET passing == SelectSeq(data,
                               LAMBDA r : CompositeKey(r) = k /\ Included(r))
                kept == SelectSeq(output, LAMBDA r : CompositeKey(r) = k)
            IN  /\ ~(\E r \in RowsOf(kept) : r.source_desc = "SURVEY"
                        /\ \E q \in RowsOf(kept) : q.source_desc = "CENSUS")
                /\ ((\E r \in RowsOf(passing) : r.source_desc = "SURVEY")
                        /\ (\E q \in RowsOf(passing) : q.source_desc = "CENSUS"))
                    => kept = SelectSeq(passing,
                                  LAMBDA r : r.source_desc = "SURVEY")

\* a key reported by a SURVEY row, a CENSUS row and an untagged row: only the
\* SURVEY row is returned
C1_Witness ==
    /\ called = "filterData"
    /\ Len(data) = 3
    /\ \A i \in 1..3 : CompositeKey(data[i]) = CompositeKey(BaseRecord)
                          /\ Included(data[i])
    /\ {data[i].source_desc : i \in 1..3} = Provenances
    /\ Len(output) = 1
    /\ output[1].source_desc = "SURVEY"

(* C9: every record in the output of filterData satisfies the three         *)
(* inclusion rules: (1) no provenance tag, or SURVEY, or FARM OPERATIONS,   *)
(* or SALES in $; (2) the commodity label contains neither "TOTAL" nor      *)
(* "ALL CLASSES"; (3) the domain is "TOTAL" or absent.                      *)
C9_OutputSatisfiesRules ==
    called = "filterData" =>
        \A i \in 1..Len(output) : Included(output[i])

\* records breaking each of the rules were given and something was kept
C9_Witness ==
    /\ called = "filterData"
    /\ \E i \in 1..Len(data) : ~Rule1(data[i])
    /\ \E i \in 1..Len(data) : ~Rule2(data[i]) \/ ~Rule3(data[i])
    /\ Len(output) = 1

-----------------------------------------------------------------------------
(* Metric resolution shared by getTopCrops, getTrendData and getBoomCrops  *)

\* (metric === 'SALES' ? ['SALES','PRODUCTION','VALUE'].includes(stat)
\*                     : stat === metric) && (metric === 'SALES' ? unit === '$' : true)
MatchesMetric(d, metric) ==
    /\ IF metric = "SALES"
           THEN d.statisticcat_desc \in {"SALES", "PRODUCTION", "VALUE"}
           ELSE d.statisticcat_desc = metric
    /\ (metric = "SALES" => d.unit_desc = "$")

HasStat(rows, stat) == \E i \in 1..Len(rows) : rows[i].statisticcat_desc = stat

WithStat(rows, stat) == SelectSeq(rows, LAMBDA r : r.statisticcat_desc = stat)

\* the fallback that takes every $ row of a category without SALES rows, adding
\* PRODUCTION and VALUE rows together
RelevantRowsSalesThenAll(rows, metric) ==
    IF metric # "SALES" THEN rows
    ELSE IF HasStat(rows, "SALES") THEN WithStat(rows, "SALES")
    ELSE rows

\* the rows of one category that count for the metric: for SALES the SALES rows
\* if any, else the PRODUCTION rows if any, else the VALUE rows
RelevantRows(rows, metric) ==
    IF metric # "SALES" THEN rows
    ELSE IF HasStat(rows, "SALES") THEN WithStat(rows, "SALES")
    ELSE IF HasStat(rows, "PRODUCTION") THEN WithStat(rows, "PRODUCTION")
    ELSE WithStat(rows, "VALUE")

CommodityKeys(rows) == [i \in 1..Len(rows) |-> rows[i].commodity_desc]
YearKeys(rows) == [i \in 1..Len(rows) |-> rows[i].year]

-----------------------------------------------------------------------------
(* getTopCrops *)

\* slice(0, 10)
TopN == 10

\* slice(0, n) that returns the whole array
FirstNUncut(s, n) == s

\* slice(0, n)
FirstN(s, n) == SubSeq(s, 1, IF Len(s) < n THEN Len(s) ELSE n)

\* e goes behind every entry whose value is not smaller
RECURSIVE InsertByValueDesc(_, _)
InsertByValueDesc(s, e) ==
    IF s = <<>> THEN <<e>>
    ELSE IF Head(s).value >= e.value
             THEN <<Head(s)>> \o InsertByValueDesc(Tail(s), e)
             ELSE <<e>> \o s

\* sort that leaves the array as it is
SortByValueDescNoOp(s) == s

\* sort((a, b) => b[1] - a[1]): descending by value, stable
RECURSIVE SortByValueDesc(_)
SortByValueDesc(s) ==
    IF s = <<>> THEN <<>>
    ELSE InsertByValueDesc(SortByValueDesc(SubSeq(s, 1, Len(s) - 1)), s[Len(s)])

getTopCrops(d, year, metric) ==
    LET filtered == SelectSeq(filterData(d),
                        LAMBDA r : r.year = year /\ MatchesMetric(r, metric))
        commodityGroups == Group(filtered, CommodityKeys(filtered))
        sums == [g \in 1..Len(commodityGroups) |->
                    [commodity |-> commodityGroups[g].key,
                     value |-> SumValues(RelevantRows(commodityGroups[g].rows,
                                                      metric))]]
        rolledUp == SelectSeq(sums, LAMBDA e : e.value > 0)
    IN  FirstN(SortByValueDesc(rolledUp), TopN)

-----------------------------------------------------------------------------
(* Inputs of getTopCrops: short free collections, and wide collections     *)
(* with one row for each of up to MaxCrops categories                      *)

\* most categories in a wide input
MaxCrops == 11

CropNames ==
    <<"CORN", "SOY", "WHEAT", "HAY", "RYE", "OATS", "RICE", "HOPS", "MINT",
      "FLAX", "PEAS", "TARO", "DILL", "KALE">>

AreaRecord ==
    [BaseRecord EXCEPT !.statisticcat_desc = "AREA HARVESTED", !.unit_desc = "ACRES"]

Years == {2020, 2021}

TopRecords ==
    {[AreaRecord EXCEPT !.commodity_desc = c, !.year = y, !.value_num = Num(v)] :
        c \in {"CORN", "SOY"}, y \in Years, v \in {-1, 1, 2}}
    \cup {[AreaRecord EXCEPT !.statisticcat_desc = "YIELD", !.value_num = Num(2)]}
    \cup {[AreaRecord EXCEPT !.value_num = Undef, !.Value = Str(t)] :
        t \in {<<"(", "D", ")">>, <<"1", ",", "0", "0", "0">>}}

WideValues == {1, 2}

WideRecord(i, v) ==
    [AreaRecord EXCEPT !.commodity_desc = CropNames[i], !.value_num = Num(v)]

InitTop ==
    /\ \/ \E n \in 0..MaxRecs : data \in [1..n -> TopRecords]
       \/ \E n \in 1..MaxCrops : \E v \in [1..n -> WideValues] :
            data = [i \in 1..n |-> WideRecord(i, v[i])]
    /\ args = <<>>
    /\ called = "none"
    /\ output = <<>>

CallGetTopCrops(metrics) ==
    /\ called = "none"
    /\ \E y \in Years, m \in metrics :
        /\ args' = [year |-> y, metric |-> m]
        /\ output' = getTopCrops(data, y, m)
    /\ called' = "getTopCrops"
    /\ UNCHANGED data

NextTop == CallGetTopCrops({"AREA HARVESTED", "YIELD"})

SpecTop == InitTop /\ [][NextTop]_vars

-----------------------------------------------------------------------------
(* Statements about getTopCrops *)

\* the categories of the filtered records
Categories(rows) == {rows[i].commodity_desc : i \in 1..Len(rows)}

\* the sum of the normalised values of the rows of category c among the
\* filtered rows clean, for the year and the (non-revenue) metric
CategoryTotal(clean, c, year, metric) ==
    SumValues(SelectSeq(clean,
        LAMBDA r : r.commodity_desc = c /\ r.year = year
                      /\ r.statisticcat_desc = metric))

C3_AtMostTenPositive ==
    called = "getTopCrops" =>
        LET clean == filterData(data)
        IN  /\ Len(output) <= 10
            /\ \A i \in 1..Len(output) : output[i].value > 0
            /\ \A c \in Categories(clean) :
                   CategoryTotal(clean, c, args.year, args.metric) <= 0
                       => \A i \in 1..Len(output) : output[i].commodity # c

\* more than ten categories with a positive sum were given and ten returned
C3_Witness ==
    /\ called = "getTopCrops"
    /\ Cardinality({c \in Categories(data) :
           CategoryTotal(data, c, args.year, args.metric) > 0}) > 10
    /\ Len(output) = 10

-----------------------------------------------------------------------------
(* getTrendData *)

\* the array left in the order in which the years were first met
SortByYearAscUnsorted(s) == s

\* e goes behind every entry whose year is not larger
RECURSIVE InsertByYearAsc(_, _)
InsertByYearAsc(s, e) ==
    IF s = <<>> THEN <<e>>
    ELSE IF Head(s).year <= e.year
             THEN <<Head(s)>> \o InsertByYearAsc(Tail(s), e)
             ELSE <<e>> \o s

\* sort((a, b) => a.year - b.year): ascending by year, stable
RECURSIVE SortByYearAsc(_)
SortByYearAsc(s) ==
    IF s = <<>> THEN <<>>
    ELSE InsertByYearAsc(SortByYearAsc(SubSeq(s, 1, Len(s) - 1)), s[Len(s)])

\* one object per year: year, and under `series` one property per requested
\* commodity (yearObj[commodity])
getTrendData(d, metric, topCommodities) ==
    LET filtered == SelectSeq(filterData(d),
                        LAMBDA r : MatchesMetric(r, metric)
                                      /\ Contains(topCommodities, r.commodity_desc))
        yearGroups == Group(filtered, YearKeys(filtered))
        trendData ==
            [g \in 1..Len(yearGroups) |->
                [year |-> yearGroups[g].key,
                 series |->
                    [c \in {topCommodities[i] : i \in 1..Len(topCommodities)} |->
                        SumValues(RelevantRows(
                            SelectSeq(yearGroups[g].rows,
                                      LAMBDA r : r.commodity_desc = c),
                            metric))]]]
    IN  SortByYearAsc(trendData)

-----------------------------------------------------------------------------
(* Exact fractions *)

RECURSIVE Gcd(_, _)
Gcd(a, b) == IF b = 0 THEN a ELSE Gcd(b, a % b)

Abs(x) == IF x < 0 THEN 0 - x ELSE x

\* n / d in lowest terms, d > 0
Frac(n, d) ==
    LET g == Gcd(Abs(n), d) IN [num |-> n \div g, den |-> d \div g]

FracLess(a, b) == a.num * b.den < b.num * a.den

FracMax(a, b) == IF FracLess(a, b) THEN b ELSE a

-----------------------------------------------------------------------------
(* getBoomCrops *)

\* Math.max(10000, ...)
BoomFloor == 10000

\* getYearValues: [commodity, sum] for every category with a row in year y
getYearValues(cleanData, metric, y) ==
    LET filtered == SelectSeq(cleanData,
                        LAMBDA r : r.year = y /\ MatchesMetric(r, metric))
        commodityGroups == Group(filtered, CommodityKeys(filtered))
    IN  [g \in 1..Len(commodityGroups) |->
            [commodity |-> commodityGroups[g].key,
             value |-> SumValues(RelevantRows(commodityGroups[g].rows, metric))]]

\* e goes behind every number that is not larger
RECURSIVE InsertAsc(_, _)
InsertAsc(s, e) ==
    IF s = <<>> THEN <<e>>
    ELSE IF Head(s) <= e THEN <<Head(s)>> \o InsertAsc(Tail(s), e)
    ELSE <<e>> \o s

\* sort((a, b) => a - b)
RECURSIVE SortAsc(_)
SortAsc(s) ==
    IF s = <<>> THEN <<>>
    ELSE InsertAsc(SortAsc(SubSeq(s, 1, Len(s) - 1)), s[Len(s)])

\* Math.max(10000, medianThreshold * 0.25), medianThreshold the element at
\* index floor(length / 2) of the sorted positive start values, 10000 if none
minThreshold(startValues) ==
    LET vals == [i \in 1..Len(startValues) |-> startValues[i].value]
        allStartVals == SortAsc(SelectSeq(vals, LAMBDA v : v > 0))
        medianThreshold ==
            IF Len(allStartVals) > 0
                THEN allStartVals[(Len(allStartVals) \div 2) + 1]
                ELSE 10000
    IN  FracMax(Frac(BoomFloor, 1), Frac(medianThreshold, 4))

\* e goes behind every entry whose growth is not smaller
RECURSIVE InsertByGrowthDesc(_, _)
InsertByGrowthDesc(s, e) ==
    IF s = <<>> THEN <<e>>
    ELSE IF ~FracLess(Head(s).growth, e.growth)
             THEN <<Head(s)>> \o InsertByGrowthDesc(Tail(s), e)
             ELSE <<e>> \o s

\* the entries left in the order of the end-year categories
SortByGrowthDescUnsorted(s) == s

\* sort((a, b) => b.growth - a.growth)
RECURSIVE SortByGrowthDesc(_)
SortByGrowthDesc(s) ==
    IF s = <<>> THEN <<>>
    ELSE InsertByGrowthDesc(SortByGrowthDesc(SubSeq(s, 1, Len(s) - 1)), s[Len(s)])

\* startValues.get(commodity): the entry of the commodity, if any
StartEntries(startValues, commodity) ==
    SelectSeq(startValues, LAMBDA e : e.commodity = commodity)

\* the admission test without the threshold: any positive start value
AdmittedAnyBase(startValues, endEntry, threshold) ==
    LET found == StartEntries(startValues, endEntry.commodity)
    IN  /\ found # <<>>
        /\ found[1].value # 0
        /\ endEntry.value > 0

\* startVal && startVal > minThreshold && endVal > 0
Admitted(startValues, endEntry, threshold) ==
    LET found == StartEntries(startValues, endEntry.commodity)
    IN  /\ found # <<>>
        /\ found[1].value # 0
        /\ FracLess(threshold, Frac(found[1].value, 1))
        /\ endEntry.value > 0

getBoomCrops(d, metric, endYear, startYear) ==
    LET cleanData == filterData(d)
        startValues == getYearValues(cleanData, metric, startYear)
        endValues == getYearValues(cleanData, metric, endYear)
        threshold == minThreshold(startValues)
        admitted == SelectSeq(endValues,
                        LAMBDA e : Admitted(startValues, e, threshold))
        growth ==
            [i \in 1..Len(admitted) |->
                LET startVal == StartEntries(startValues,
                                             admitted[i].commodity)[1].value
                    endVal == admitted[i].value
                IN  [commodity |-> admitted[i].commodity,
                     growth |-> Frac((endVal - startVal) * 100, startVal),
                     start |-> startVal,
                     end |-> endVal]]
    IN  FirstN(SortByGrowthDesc(growth), TopN)

-----------------------------------------------------------------------------
(* The calls of the revenue metric.  Every SALES row carries 50000, every   *)
(* PRODUCTION row 30000 and every VALUE row 20000, so that a sum shows      *)
(* which rows went into it.                                                 *)

RevenueRecord(c, y, st) ==
    [BaseRecord EXCEPT !.commodity_desc = c, !.year = y, !.statisticcat_desc = st,
        !.value_num = Num(CASE st = "SALES" -> 50000
                            [] st = "PRODUCTION" -> 30000
                            [] OTHER -> 20000)]

RevenueRecords ==
    {RevenueRecord(c, y, st) :
        c \in {"CORN", "SOY"}, y \in Years, st \in {"SALES", "PRODUCTION", "VALUE"}}
    \cup {[RevenueRecord("CORN", 2020, "PRODUCTION") EXCEPT !.unit_desc = "BU"],
          [RevenueRecord("CORN", 2020, "SALES") EXCEPT
              !.value_num = Undef, !.Value = Str(<<"(", "D", ")">>)]}

InitRevenue ==
    /\ \E n \in 0..MaxRecs : data \in [1..n -> RevenueRecords]
    /\ args = <<>>
    /\ called = "none"
    /\ output = <<>>

CallGetTrendData(metrics, commodityLists) ==
    /\ called = "none"
    /\ \E m \in metrics, tc \in commodityLists :
        /\ args' = [metric |-> m, topCommodities |-> tc]
        /\ output' = getTrendData(data, m, tc)
    /\ called' = "getTrendData"
    /\ UNCHANGED data

CallGetBoomCrops(metrics, endYears) ==
    /\ called = "none"
    /\ \E m \in metrics, endYear \in endYears, startYear \in Years :
        /\ args' = [metric |-> m, endYear |-> endYear, startYear |-> startYear]
        /\ output' = getBoomCrops(data, m, endYear, startYear)
    /\ called' = "getBoomCrops"
    /\ UNCHANGED data

NextRevenue ==
    \/ CallGetTopCrops({"SALES"})
    \/ CallGetTrendData({"SALES"}, {<<"CORN">>, <<"SOY", "CORN">>})
    \/ CallGetBoomCrops({"SALES"}, Years)

SpecRevenue == InitRevenue /\ [][NextRevenue]_vars

-----------------------------------------------------------------------------
(* Statements about the revenue metric *)

\* the $ rows of category c in year y that report statistic st, among the
\* filtered rows clean
DollarRows(clean, c, y, st) ==
    SelectSeq(clean,
        LAMBDA r : r.commodity_desc = c /\ r.year = y /\ r.unit_desc = "$"
                      /\ r.statisticcat_desc = st)

\* the revenue of category c in year y: its $ SALES rows if it has any, else
\* its $ PRODUCTION rows if it has any, else its $ VALUE rows
Revenue(clean, c, y) ==
    IF DollarRows(clean, c, y, "SALES") # <<>>
        THEN SumValues(DollarRows(clean, c, y, "SALES"))
    ELSE IF DollarRows(clean, c, y, "PRODUCTION") # <<>>
        THEN SumValues(DollarRows(clean, c, y, "PRODUCTION"))
    ELSE SumValues(DollarRows(clean, c, y, "VALUE"))

(* C10: for the revenue metric SALES the value aggregated for a category in *)
(* getTopCrops, getTrendData and getBoomCrops is the sum of the category's  *)
(* $ SALES rows if it has any, otherwise of its $ PRODUCTION rows if it has *)
(* any, otherwise of its $ VALUE rows, chosen for each category on its own. *)
C10_RevenuePreferencePerCategory ==
    LET clean == filterData(data)
    IN  /\ called = "getTopCrops" =>
            \A i \in 1..Len(output) :
                output[i].value = Revenue(clean, output[i].commodity, args.year)
        /\ called = "getTrendData" =>
            \A i \in 1..Len(output) : \A c \in DOMAIN output[i].series :
                output[i].series[c] = Revenue(clean, c, output[i].year)
        /\ called = "getBoomCrops" =>
            \A i \in 1..Len(output) :
                /\ output[i].start =
                       Revenue(clean, output[i].commodity, args.startYear)
                /\ output[i].end =
                       Revenue(clean, output[i].commodity, args.endYear)

\* one category is valued by its SALES row although it has a PRODUCTION row,
\* the other by its PRODUCTION row
C10_Witness ==
    /\ called = "getTopCrops"
    /\ args.year = 2020
    /\ Len(data) = 3
    /\ RevenueRecord("CORN", 2020, "SALES") \in RowsOf(data)
    /\ RevenueRecord("CORN", 2020, "PRODUCTION") \in RowsOf(data)
    /\ RevenueRecord("SOY", 2020, "PRODUCTION") \in RowsOf(data)
    /\ {output[i] : i \in 1..Len(output)} =
           {[commodity |-> "CORN", value |-> 50000],
            [commodity |-> "SOY", value |-> 30000]}

-----------------------------------------------------------------------------
(* The calls of getBoomCrops on tables: for each of up to MaxBoomCrops      *)
(* categories at most one row in 2020 and at most one row in 2021           *)

\* most categories in a table
MaxBoomCrops == 3

BoomNames == <<"A", "B", "C", "D">>

\* a cell of the table: no row, or one row with the value
StartYearCells == {<<>>, <<5000>>, <<10000>>, <<20000>>, <<100000>>}
EndYearCells == {<<>>, <<0>>, <<20000>>, <<150000>>}

BoomRow(c, y, cell) ==
    [j \in 1..Len(cell) |->
        [AreaRecord EXCEPT !.commodity_desc = c, !.year = y,
                           !.value_num = Num(cell[j])]]

\* the rows of the table: category by category, 2020 before 2021
BoomTable(n, v2020, v2021) ==
    Flatten([i \in 1..n |->
        BoomRow(BoomNames[i], 2020, v2020[i]) \o BoomRow(BoomNames[i], 2021, v2021[i])])

InitBoom ==
    /\ \E n \in 1..MaxBoomCrops :
        \E v2020 \in [1..n -> StartYearCells], v2021 \in [1..n -> EndYearCells] :
            data = BoomTable(n, v2020, v2021)
    /\ args = <<>>
    /\ called = "none"
    /\ output = <<>>

NextBoom == CallGetBoomCrops({"AREA HARVESTED"}, {2021})

SpecBoom == InitBoom /\ [][NextBoom]_vars

-----------------------------------------------------------------------------
(* Statements about getBoomCrops *)

\* <<category, sum>> for every category with a row of the (non-revenue)
\* metric in year y among the filtered rows clean
Aggregates(clean, y, metric) ==
    LET rows == SelectSeq(clean,
                    LAMBDA r : r.year = y /\ r.statisticcat_desc = metric)
    IN  {<<c, SumValues(SelectSeq(rows, LAMBDA r : r.commodity_desc = c))>> :
            c \in Categories(rows)}

\* the values at position floor(n / 2) (counting from 0) of the n aggregates P
\* in ascending order
UpperMedians(P) ==
    LET half == Cardinality(P) \div 2
    IN  {p[2] : p \in {q \in P :
            /\ Cardinality({r \in P : r[2] < q[2]}) <= half
            /\ Cardinality({r \in P : r[2] <= q[2]}) > half}}

\* v is below the dynamic threshold: below the floor 10000, or below a quarter
\* of the median of the positive start-year aggregates P
BelowThreshold(v, P) ==
    \/ v < 10000
    \/ \E m \in UpperMedians(P) : 4 * v < m

ScenarioC4 ==
    BoomTable(2, <<<<100000>>, <<5000>>>>, <<<<150000>>, <<20000>>>>)

(* C4: getBoomCrops never returns a category whose start-year aggregate is  *)
(* below the dynamic threshold and never one without an aggregate in the    *)
(* start year; with start values {A:100000, B:5000}, end values {A:150000,  *)
(* B:20000} and floor 10000, B is excluded and A returned with growth 50%.  *)
C4_BoomRespectsThreshold ==
    called = "getBoomCrops" =>
        LET starts == Aggregates(filterData(data), args.startYear, args.metric)
            positive == {p \in starts : p[2] > 0}
        IN  /\ \A i \in 1..Len(output) :
                \E p \in starts :
                    /\ p[1] = output[i].commodity
                    /\ ~BelowThreshold(p[2], positive)
            /\ (data = ScenarioC4 /\ args.startYear = 2020 /\ args.endYear = 2021)
                => /\ Len(output) = 1
                   /\ output[1].commodity = "A"
                   /\ output[1].growth.num = 50 * output[1].growth.den
                   /\ output[1].start = 100000
                   /\ output[1].end = 150000

\* the scenario was run
C4_Witness ==
    /\ called = "getBoomCrops"
    /\ data = ScenarioC4
    /\ args = [metric |-> "AREA HARVESTED", endYear |-> 2021, startYear |-> 2020]
    /\ Len(output) = 1

-----------------------------------------------------------------------------
(* getLandUseTrends *)

\* the commodities of the rows with the statistic, as a Set iterates them
CropsWith(rows, stat) == Distinct(CommodityKeys(WithStat(rows, stat)))

\* excludedCropCount counted from the planted crops
ExcludedCountFromPlanted(plantedCrops, harvestedCrops, bothCrops) ==
    Len(plantedCrops) - Len(bothCrops)

\* harvestedCrops.size - bothCrops.size
ExcludedCount(plantedCrops, harvestedCrops, bothCrops) ==
    Len(harvestedCrops) - Len(bothCrops)

\* the pairing that keeps every crop with a planted or a harvested row
BothCropsEither(plantedCrops, harvestedCrops) ==
    Distinct(plantedCrops \o harvestedCrops)

\* [...plantedCrops].filter(c => harvestedCrops.has(c))
BothCrops(plantedCrops, harvestedCrops) ==
    SelectSeq(plantedCrops, LAMBDA c : Contains(harvestedCrops, c))

\* Step 3 with the years counted that have a planted and a harvested row
IsMultiHarvestOfPairedYears(paired, crop) ==
    LET cropRows == SelectSeq(paired, LAMBDA r : r.commodity_desc = crop)
        allYears == Distinct(YearKeys(cropRows))
        years == SelectSeq(allYears, LAMBDA y :
                     /\ \E i \in 1..Len(cropRows) :
                            cropRows[i].year = y
                                /\ cropRows[i].statisticcat_desc = "AREA PLANTED"
                     /\ \E i \in 1..Len(cropRows) :
                            cropRows[i].year = y
                                /\ cropRows[i].statisticcat_desc = "AREA HARVESTED")
        p(y) == SumValues(SelectSeq(cropRows,
                    LAMBDA r : r.year = y /\ r.statisticcat_desc = "AREA PLANTED"))
        h(y) == SumValues(SelectSeq(cropRows,
                    LAMBDA r : r.year = y /\ r.statisticcat_desc = "AREA HARVESTED"))
        multiCount == Cardinality({i \in 1..Len(years) :
                          p(years[i]) > 0 /\ 2 * h(years[i]) > 3 * p(years[i])})
    IN  Len(years) > 0 /\ 2 * multiCount > Len(years)

\* Step 3 for one crop: harvested / planted > 1.5 in more than half of its years
IsMultiHarvest(paired, crop) ==
    LET cropRows == SelectSeq(paired, LAMBDA r : r.commodity_desc = crop)
        years == Distinct(YearKeys(cropRows))
        p(y) == SumValues(SelectSeq(cropRows,
                    LAMBDA r : r.year = y /\ r.statisticcat_desc = "AREA PLANTED"))
        h(y) == SumValues(SelectSeq(cropRows,
                    LAMBDA r : r.year = y /\ r.statisticcat_desc = "AREA HARVESTED"))
        multiCount == Cardinality({i \in 1..Len(years) :
                          p(years[i]) > 0 /\ 2 * h(years[i]) > 3 * p(years[i])})
    IN  Len(years) > 0 /\ 2 * multiCount > Len(years)

\* a year point kept whatever its sums
KeepYearAlways(t) == TRUE

\* if (planted > 0 || harvested > 0) trends.push(...)
KeepYear(t) == t.planted > 0 \/ t.harvested > 0

\* the sorted array with the three properties attached to it
getLandUseTrends(d) ==
    LET relevant == SelectSeq(filterData(d),
                        LAMBDA r : r.statisticcat_desc
                                      \in {"AREA PLANTED", "AREA HARVESTED"})
        plantedCrops == CropsWith(relevant, "AREA PLANTED")
        harvestedCrops == CropsWith(relevant, "AREA HARVESTED")
        bothCrops == BothCrops(plantedCrops, harvestedCrops)
        paired == SelectSeq(relevant,
                      LAMBDA r : Contains(bothCrops, r.commodity_desc))
        yearGroups == Group(paired, YearKeys(paired))
        points ==
            [g \in 1..Len(yearGroups) |->
                [year |-> yearGroups[g].key,
                 planted |-> SumValues(WithStat(yearGroups[g].rows, "AREA PLANTED")),
                 harvested |->
                     SumValues(WithStat(yearGroups[g].rows, "AREA HARVESTED"))]]
        trends == SelectSeq(points, KeepYear)
    IN  [trends |-> SortByYearAsc(trends),
         multiHarvestCrops |->
             SelectSeq(bothCrops, LAMBDA c : IsMultiHarvest(paired, c)),
         pairedCropCount |-> Len(bothCrops),
         excludedCropCount |->
             ExcludedCount(plantedCrops, harvestedCrops, bothCrops)]

-----------------------------------------------------------------------------
(* The call of getLandUseTrends *)

LandRecords ==
    {[AreaRecord EXCEPT !.commodity_desc = c, !.year = y,
                        !.statisticcat_desc = sv[1], !.value_num = Num(sv[2])] :
        c \in {"CORN", "SOY"}, y \in Years,
        sv \in {<<"AREA PLANTED", 100>>, <<"AREA PLANTED", 30>>,
                <<"AREA HARVESTED", 95>>, <<"AREA HARVESTED", 50>>}}
    \cup {[AreaRecord EXCEPT !.commodity_desc = "SOY", !.statisticcat_desc = "YIELD",
                             !.value_num = Num(40)],
          [AreaRecord EXCEPT !.commodity_desc = "SOY",
                             !.statisticcat_desc = "AREA PLANTED",
                             !.value_num = Undef, !.Value = Str(<<"(", "D", ")">>)]}

InitLand ==
    /\ \E n \in 0..MaxRecs : data \in [1..n -> LandRecords]
    /\ args = <<>>
    /\ called = "none"
    /\ output = <<>>

CallGetLandUseTrends ==
    /\ called = "none"
    /\ called' = "getLandUseTrends"
    /\ output' = getLandUseTrends(data)
    /\ UNCHANGED <<data, args>>

NextLand == CallGetLandUseTrends

SpecLand == InitLand /\ [][NextLand]_vars

-----------------------------------------------------------------------------
(* Statements about getLandUseTrends *)

\* the categories with a row of the statistic among the rows
Reporting(rows, stat) ==
    {rows[i].commodity_desc : i \in {j \in 1..Len(rows) :
                                        rows[j].statisticcat_desc = stat}}

\* the sum of the statistic over the rows of year y whose category is in S
AreaSum(rows, S, y, stat) ==
    SumValues(SelectSeq(rows,
        LAMBDA r : r.commodity_desc \in S /\ r.year = y
                      /\ r.statisticcat_desc = stat))

LandRow(c, st, y, v) ==
    [AreaRecord EXCEPT !.commodity_desc = c, !.statisticcat_desc = st,
                       !.year = y, !.value_num = Num(v)]

ScenarioC5 ==
    <<LandRow("CORN", "AREA PLANTED", 2020, 100),
      LandRow("CORN", "AREA HARVESTED", 2020, 95),
      LandRow("SOY", "AREA HARVESTED", 2020, 50)>>

(* C5: in getLandUseTrends a category that reports only AREA PLANTED or     *)
(* only AREA HARVESTED contributes to no year point: the planted and        *)
(* harvested values of every returned year are the sums over the rows of    *)
(* the categories that report both statistics.  For CORN planted 2020=100,  *)
(* CORN harvested 2020=95, SOY harvested 2020=50 the result is the single   *)
(* point {year 2020, planted 100, harvested 95} with excluded count 1.      *)
C5_OnlyPairedCategoriesCount ==
    called = "getLandUseTrends" =>
        LET clean == filterData(data)
            both == Reporting(clean, "AREA PLANTED")
                        \cap Reporting(clean, "AREA HARVESTED")
        IN  /\ \A i \in 1..Len(output.trends) :
                LET t == output.trends[i]
                IN  /\ \E j \in 1..Len(clean) :
                        clean[j].year = t.year /\ clean[j].commodity_desc \in both
                    /\ t.planted = AreaSum(clean, both, t.year, "AREA PLANTED")
                    /\ t.harvested = AreaSum(clean, both, t.year, "AREA HARVESTED")
            /\ data = ScenarioC5 =>
                /\ output.trends =
                       <<[year |-> 2020, planted |-> 100, harvested |-> 95]>>
                /\ output.excludedCropCount = 1

\* the scenario was run
C5_Witness ==
    /\ called = "getLandUseTrends"
    /\ data = ScenarioC5
    /\ Len(output.trends) = 1

(* C6: the metadata returned by getLandUseTrends satisfies                  *)
(* excludedCropCount + pairedCropCount = number of distinct categories that *)
(* report AREA HARVESTED (after filtering), and both counts are             *)
(* non-negative.                                                            *)
C6_ExcludedPlusPaired ==
    called = "getLandUseTrends" =>
        /\ output.excludedCropCount + output.pairedCropCount =
               Cardinality(Reporting(filterData(data), "AREA HARVESTED"))
        /\ output.excludedCropCount >= 0
        /\ output.pairedCropCount >= 0

\* one paired category and one category that reports a harvest only
C6_Witness ==
    /\ called = "getLandUseTrends"
    /\ output.pairedCropCount = 1
    /\ output.excludedCropCount = 1
    /\ Cardinality(Reporting(data, "AREA PLANTED")) = 1
    /\ Cardinality(Reporting(data, "AREA HARVESTED")) = 2

-----------------------------------------------------------------------------
(* detectAnomalies.  The numbers of a series are exact fractions.           *)

FracAdd(a, b) == Frac(a.num * b.den + b.num * a.den, a.den * b.den)
FracSub(a, b) == Frac(a.num * b.den - b.num * a.den, a.den * b.den)
FracMul(a, b) == Frac(a.num * b.num, a.den * b.den)

RECURSIVE FracSum(_)
FracSum(fs) == IF fs = <<>> THEN Frac(0, 1) ELSE FracAdd(Head(fs), FracSum(Tail(fs)))

\* d3.mean of a non-empty array of numbers
FracMean(fs) ==
    LET total == FracSum(fs) IN Frac(total.num, total.den * Len(fs))

\* the values of the series, positive or not
AllValues(yearValues) ==
    [i \in 1..Len(yearValues) |-> yearValues[i].value]

\* yearValues.map(d => d.value).filter(v => v > 0)
PositiveValues(yearValues) ==
    SelectSeq([i \in 1..Len(yearValues) |-> yearValues[i].value],
              LAMBDA v : v.num > 0)

\* meanVal - sensitivity * stdDev, stdDev the square root of variance, kept
\* as its three parts
Threshold(meanVal, sensitivity, variance) ==
    [mean |-> meanVal, sensitivity |-> sensitivity, variance |-> variance]

\* value < threshold, decided exactly: with d = mean - value the test is
\* sensitivity * sqrt(variance) < d
LessThanThreshold(value, threshold) ==
    LET d == FracSub(threshold.mean, value)
        s == threshold.sensitivity
        s2v == FracMul(FracMul(s, s), threshold.variance)
        d2 == FracMul(d, d)
    IN  IF s.num >= 0
            THEN d.num > 0 /\ FracLess(s2v, d2)
            ELSE d.num > 0 \/ FracLess(d2, s2v)

\* the guard that lets a series of two through
TooFewBelowTwo(values) == Len(values) < 2

\* yearValues.length < 3, vals.length < 3
TooFew(values) == Len(values) < 3

detectAnomalies(yearValues, sensitivity) ==
    IF TooFew(yearValues) THEN <<>>
    ELSE LET vals == PositiveValues(yearValues)
         IN  IF TooFew(vals) THEN <<>>
             ELSE LET meanVal == FracMean(vals)
                      variance ==
                          FracMean([i \in 1..Len(vals) |->
                              LET dev == FracSub(vals[i], meanVal)
                              IN  FracMul(dev, dev)])
                      threshold == Threshold(meanVal, sensitivity, variance)
                      flagged == SelectSeq(yearValues,
                                     LAMBDA d : d.value.num > 0
                                         /\ LessThanThreshold(d.value, threshold))
                  IN  [i \in 1..Len(flagged) |->
                          [year |-> flagged[i].year, value |-> flagged[i].value,
                           meanVal |-> meanVal, threshold |-> threshold]]

-----------------------------------------------------------------------------
(* The call of detectAnomalies: the series is given in `data`, one point per *)
(* year                                                                     *)

\* longest series
MaxSeries == 4

SeriesYears == <<2018, 2019, 2020, 2021, 2022, 2023>>

SeriesValues == {-5, 0, 40, 150, 155, 160}

\* sensitivity 1.0 is the default
Sensitivities == {Frac(1, 1), Frac(0, 1), Frac(1, 2), Frac(2, 1), Frac(-1, 1)}

InitAnomalies ==
    /\ \E n \in 0..MaxSeries : \E v \in [1..n -> SeriesValues] :
        data = [i \in 1..n |-> [year |-> SeriesYears[i], value |-> Frac(v[i], 1)]]
    /\ args = <<>>
    /\ called = "none"
    /\ output = <<>>

CallDetectAnomalies ==
    /\ called = "none"
    /\ \E sens \in Sensitivities :
        /\ args' = [sensitivity |-> sens]
        /\ output' = detectAnomalies(data, sens)
    /\ called' = "detectAnomalies"
    /\ UNCHANGED data

NextAnomalies == CallDetectAnomalies

SpecAnomalies == InitAnomalies /\ [][NextAnomalies]_vars

-----------------------------------------------------------------------------
(* Statements about detectAnomalies *)

RECURSIVE SumOver(_, _)
SumOver(f, I) ==
    IF I = {} THEN 0
    ELSE LET i == CHOOSE j \in I : TRUE IN f[i] + SumOver(f, I \ {i})

\* v lies strictly below mean - (p / q) * stddev, where the n positive values
\* have sum S and sum of squares Q: mean = S / n, stddev^2 = (n Q - S^2) / n^2
StrictlyBelow(v, n, S, Q, p, q) ==
    IF p >= 0
        THEN S - n * v > 0 /\ p * p * (n * Q - S * S) < q * q * (S - n * v) * (S - n * v)
        ELSE S - n * v > 0 \/ p * p * (n * Q - S * S) > q * q * (S - n * v) * (S - n * v)

ScenarioC7 ==
    <<[year |-> 2018, value |-> Frac(150, 1)], [year |-> 2019, value |-> Frac(160, 1)],
      [year |-> 2020, value |-> Frac(40, 1)], [year |-> 2021, value |-> Frac(155, 1)]>>

(* C7: when the series has at least 3 positive values, detectAnomalies      *)
(* flags a point if and only if its value is positive and strictly below    *)
(* threshold = mean - sensitivity * stddev, mean and population standard    *)
(* deviation taken over the positive values only; every returned flag       *)
(* carries that same mean and threshold.  For the series (2018,150),        *)
(* (2019,160), (2020,40), (2021,155) with sensitivity 1 exactly the year    *)
(* 2020 is flagged.                                                         *)
C7_FlagsBelowThreshold ==
    called = "detectAnomalies" =>
        LET whole == [i \in 1..Len(data) |-> data[i].value.num]
            pos == {i \in 1..Len(data) : whole[i] > 0}
            n == Cardinality(pos)
            S == SumOver(whole, pos)
            Q == SumOver([i \in 1..Len(data) |-> whole[i] * whole[i]], pos)
            p == args.sensitivity.num
            q == args.sensitivity.den
            expected == SelectSeq(data,
                            LAMBDA d : d.value.num > 0
                                /\ StrictlyBelow(d.value.num, n, S, Q, p, q))
        IN  /\ n >= 3 =>
                /\ Len(output) = Len(expected)
                /\ \A i \in 1..Len(output) :
                    /\ output[i].year = expected[i].year
                    /\ output[i].value = expected[i].value
                    /\ output[i].meanVal.num * n = S * output[i].meanVal.den
                    /\ output[i].threshold.mean = output[i].meanVal
                    /\ output[i].threshold.sensitivity = args.sensitivity
                    /\ output[i].threshold.variance.num * n * n =
                           (n * Q - S * S) * output[i].threshold.variance.den
            /\ (data = ScenarioC7 /\ args.sensitivity = Frac(1, 1)) =>
                /\ Len(output) = 1
                /\ output[1].year = 2020

\* the scenario was run and flagged 2020
C7_Witness ==
    /\ called = "detectAnomalies"
    /\ data = ScenarioC7
    /\ args.sensitivity = Frac(1, 1)
    /\ Len(output) = 1
    /\ output[1].year = 2020
    /\ output[1].meanVal = Frac(505, 4)


(* C18: detectAnomalies returns an empty list whenever the series contains  *)
(* fewer than 3 positive values, whatever the sensitivity and however many  *)
(* non-positive points the series has.                                      *)
C18_EmptyBelowThreePositive ==
    called = "detectAnomalies" =>
        (Cardinality({i \in 1..Len(data) : data[i].value.num > 0}) < 3
            => output = <<>>)

\* four points of which two are positive, the smaller one far below the other,
\* and a sensitivity that would flag it
C18_Witness ==
    /\ called = "detectAnomalies"
    /\ Len(data) = 4
    /\ {data[i].value : i \in 1..4} = {Frac(-5, 1), Frac(0, 1), Frac(40, 1), Frac(160, 1)}
    /\ args.sensitivity = Frac(-1, 1)
    /\ output = <<>>

-----------------------------------------------------------------------------
(* The call of getTrendData for an area metric *)

TrendRecords ==
    {[AreaRecord EXCEPT !.commodity_desc = c, !.year = y, !.value_num = Num(v)] :
        c \in {"CORN", "SOY", "WHEAT"}, y \in {2019, 2020, 2021}, v \in {3}}
    \cup {[AreaRecord EXCEPT !.commodity_desc = "CORN", !.value_num = Num(0)],
          [AreaRecord EXCEPT !.commodity_desc = "SOY", !.statisticcat_desc = "YIELD",
                             !.unit_desc = "BU / ACRE", !.value_num = Num(5)],
          [AreaRecord EXCEPT !.commodity_desc = "SOY", !.year = 2021,
                             !.value_num = Undef, !.Value = Str(<<"(", "D", ")">>)],
          [AreaRecord EXCEPT !.commodity_desc = "CORN", !.year = 2021,
                             !.domain_desc = "ORGANIC STATUS"]}

RequestedLists == {<<>>, <<"CORN">>, <<"SOY", "CORN">>, <<"CORN", "HAY", "CORN">>}

InitTrend ==
    /\ \E n \in 0..MaxRecs : data \in [1..n -> TrendRecords]
    /\ args = <<>>
    /\ called = "none"
    /\ output = <<>>

NextTrend == CallGetTrendData({"AREA HARVESTED"}, RequestedLists)

SpecTrend == InitTrend /\ [][NextTrend]_vars

-----------------------------------------------------------------------------
(* Statements about getTrendData *)

\* the years in which a filtered row of the metric belongs to a requested
\* category
TrendYears(clean, metric, requested) ==
    {clean[i].year : i \in {j \in 1..Len(clean) :
        MatchesMetric(clean[j], metric) /\ clean[j].commodity_desc \in requested}}

(* C11: getTrendData returns exactly one point per year, each point has one *)
(* field for every requested category (also for a category with no data     *)
(* that year, whose field is 0 and not omitted), and the points are in      *)
(* ascending year order with no year repeated.                              *)
C11_OnePointPerYear ==
    called = "getTrendData" =>
        LET clean == filterData(data)
            requested == {args.topCommodities[i] :
                             i \in 1..Len(args.topCommodities)}
            years == TrendYears(clean, args.metric, requested)
        IN  /\ {output[i].year : i \in 1..Len(output)} = years
            /\ Len(output) = Cardinality(years)
            /\ \A i \in 1..Len(output) : \A j \in 1..Len(output) :
                i < j => output[i].year < output[j].year
            /\ \A i \in 1..Len(output) :
                /\ DOMAIN output[i].series = requested
                /\ \A c \in requested :
                    (\A j \in 1..Len(clean) :
                        ~(clean[j].commodity_desc = c
                            /\ clean[j].year = output[i].year))
                        => output[i].series[c] = 0

\* two years given latest first, the second category has data in one of them
\* only
C11_Witness ==
    /\ called = "getTrendData"
    /\ args.topCommodities = <<"SOY", "CORN">>
    /\ Len(data) = 3
    /\ data[1].year = 2021
    /\ data[2].year = 2020
    /\ Len(output) = 2
    /\ output[1].year = 2020
    /\ output[1].series["SOY"] = 0
    /\ output[1].series["CORN"] = 3
    /\ output[2].series["SOY"] = 3

-----------------------------------------------------------------------------
(* getMapData *)

LowerCaseOrder ==
    <<"a","b","c","d","e","f","g","h","i","j","k","l","m",
      "n","o","p","q","r","s","t","u","v","w","x","y","z">>
UpperCaseOrder ==
    <<"A","B","C","D","E","F","G","H","I","J","K","L","M",
      "N","O","P","Q","R","S","T","U","V","W","X","Y","Z">>

\* a lower-case letter becomes its capital, every other character stays
UpperChar(c) ==
    IF c \in LowerLetters
        THEN UpperCaseOrder[CHOOSE i \in 1..Len(LowerCaseOrder) : LowerCaseOrder[i] = c]
        ELSE c

\* the labels that toUpperCase produces from the inputs
UpperCaseLabels ==
    {"AREA HARVESTED", "AREA PLANTED", "YIELD", "SALES", "WAGE RATE",
     "PRODUCTION", "VALUE", "IN", "INDIANA", "TX", "ZZ"}

\* String.prototype.toUpperCase
toUpperCase(l) ==
    LET chars == LabelChars(l)
        upper == [i \in 1..Len(chars) |-> UpperChar(chars[i])]
    IN  CHOOSE u \in UpperCaseLabels : LabelChars(u) = upper

\* d.state_alpha taken alone, the national code included
IsAnyState(d) == TruthyLabel(d.state_alpha)

\* d.state_alpha && d.state_alpha !== 'US'
IsMappedState(d) == TruthyLabel(d.state_alpha) /\ d.state_alpha # "US"

\* filtered.forEach: mapData[state] = (mapData[state] || 0) + val unless val
\* is NaN
RECURSIVE AddToMap(_, _)
AddToMap(mapData, rows) ==
    IF rows = <<>> THEN mapData
    ELSE LET state == Head(rows).state_alpha
             val == ValueOf(Head(rows))
             prev == IF state \in DOMAIN mapData THEN mapData[state] ELSE 0
         IN  AddToMap(IF val.t # "num" THEN mapData
                      ELSE [s \in DOMAIN mapData \cup {state} |->
                               IF s = state THEN prev + val.n ELSE mapData[s]],
                      Tail(rows))

\* a mapping that starts with an entry
EmptyMapSeeded == [st \in {"IN"} |-> 0]

\* const mapData = {}
EmptyMap == <<>>

\* the mapping from state code to aggregate
getMapData(d, year, metric) ==
    LET filtered == SelectSeq(filterData(d),
                        LAMBDA r : /\ r.year = year
                                   /\ TruthyLabel(r.statisticcat_desc)
                                   /\ toUpperCase(r.statisticcat_desc) = metric
                                   /\ IsMappedState(r))
    IN  AddToMap(EmptyMap, filtered)

-----------------------------------------------------------------------------
(* The call of getMapData *)

MapRecords ==
    {[AreaRecord EXCEPT !.state_alpha = st, !.value_num = Num(v)] :
        st \in {"IN", "TX", "US"}, v \in {2, 5}}
    \cup {[AreaRecord EXCEPT !.year = 2021],
          [AreaRecord EXCEPT !.statisticcat_desc = "YIELD", !.value_num = Num(7)],
          [AreaRecord EXCEPT !.statisticcat_desc = "Area Harvested",
                             !.value_num = Num(3)],
          [AreaRecord EXCEPT !.value_num = Undef, !.Value = Str(<<"(", "D", ")">>)],
          [AreaRecord EXCEPT !.state_alpha = "TX", !.value_num = Num(-2)],
          [AreaRecord EXCEPT !.state_alpha = Absent],
          [AreaRecord EXCEPT !.source_desc = "CENSUS", !.value_num = Num(9)]}

InitMap ==
    /\ \E n \in 0..MaxRecs : data \in [1..n -> MapRecords]
    /\ args = <<>>
    /\ called = "none"
    /\ output = <<>>

CallGetMapData ==
    /\ called = "none"
    /\ \E y \in Years, m \in {"AREA HARVESTED", "YIELD"} :
        /\ args' = [year |-> y, metric |-> m]
        /\ output' = getMapData(data, y, m)
    /\ called' = "getMapData"
    /\ UNCHANGED data

NextMap == CallGetMapData

SpecMap == InitMap /\ [][NextMap]_vars

-----------------------------------------------------------------------------
(* Statements about getMapData *)

\* the filtered rows of the state for the year and the metric
StateRows(clean, st, year, metric) ==
    SelectSeq(clean,
        LAMBDA r : /\ r.state_alpha = st
                   /\ r.year = year
                   /\ r.statisticcat_desc # Absent
                   /\ toUpperCase(r.statisticcat_desc) = metric)

(* C12: getMapData never returns an entry for the national aggregate state  *)
(* code "US", and for every other state code in the result the value is the *)
(* sum of the normalized values of that state's filtered records for the    *)
(* given year and metric, no-value records contributing nothing.            *)
C12_StateSumsWithoutNational ==
    called = "getMapData" =>
        LET clean == filterData(data)
        IN  /\ "US" \notin DOMAIN output
            /\ \A st \in DOMAIN output :
                LET rows == StateRows(clean, st, args.year, args.metric)
                    valued == SelectSeq(rows, LAMBDA r : ValueOf(r) # NaN)
                IN  /\ valued # <<>>
                    /\ output[st] = SumValues(valued)
                    /\ output[st] = SumValues(rows)

\* a national row, a state row with a value and one without
C12_Witness ==
    /\ called = "getMapData"
    /\ \E i \in 1..Len(data) : data[i].state_alpha = "US"
    /\ \E i \in 1..Len(data) : data[i].state_alpha = "IN" /\ ValueOf(data[i]) = NaN
    /\ DOMAIN output = {"IN"}
    /\ output["IN"] = 5

-----------------------------------------------------------------------------
(* getRevenueForCommodity, getAreaPlantedForCommodity, getCommodityStory    *)

\* the values of the rows that are numbers, in row order
NumbersOf(rows) ==
    LET valued == SelectSeq(rows, LAMBDA r : ValueOf(r).t = "num")
    IN  [i \in 1..Len(valued) |-> ValueOf(valued[i]).n]

\* the revenue taken as the sum of the rows
MaxValueSummed(rows) == SumValues(rows)

\* d3.max(rows, r => cleanValue(r.value_num || r.Value)) || 0: NaN is skipped,
\* undefined for no number at all
MaxValue(rows) ==
    LET ns == NumbersOf(rows)
    IN  IF ns = <<>> THEN 0
        ELSE CHOOSE m \in {ns[i] : i \in 1..Len(ns)} :
                 \A i \in 1..Len(ns) : ns[i] <= m

\* d3.mean(rows, r => cleanValue(r.value_num || r.Value)) || 0
MeanValue(rows) ==
    LET ns == NumbersOf(rows)
    IN  IF ns = <<>> THEN Frac(0, 1)
        ELSE FracMean([i \in 1..Len(ns) |-> Frac(ns[i], 1)])

\* rows.find(r => r.statisticcat_desc === stat)?.unit_desc || ''
UnitOf(rows, stat) ==
    LET found == WithStat(rows, stat)
    IN  IF found = <<>> THEN "" ELSE KeyPart(found[1].unit_desc)

getRevenueForCommodity(d, commodity) ==
    LET filtered == SelectSeq(filterData(d),
                        LAMBDA r : /\ r.commodity_desc = commodity
                                   /\ r.statisticcat_desc = "SALES"
                                   /\ r.unit_desc = "$")
        yearGroups == Group(filtered, YearKeys(filtered))
        points == [g \in 1..Len(yearGroups) |->
                      [year |-> yearGroups[g].key,
                       revenue |-> MaxValue(yearGroups[g].rows)]]
    IN  SortByYearAsc(SelectSeq(points, LAMBDA t : t.revenue > 0))

getAreaPlantedForCommodity(d, commodity) ==
    LET filtered == SelectSeq(filterData(d),
                        LAMBDA r : /\ r.commodity_desc = commodity
                                   /\ r.statisticcat_desc = "AREA PLANTED")
        yearGroups == Group(filtered, YearKeys(filtered))
        points == [g \in 1..Len(yearGroups) |->
                      [year |-> yearGroups[g].key,
                       areaPlanted |-> SumValues(yearGroups[g].rows)]]
    IN  SortByYearAsc(SelectSeq(points, LAMBDA t : t.areaPlanted > 0))

\* the value that mergedMap gets for one year of the sector CROPS
CropsPoint(rows, year) ==
    [year |-> year,
     production |-> SumValues(WithStat(rows, "PRODUCTION")),
     yield |-> MeanValue(WithStat(rows, "YIELD")),
     areaHarvested |-> SumValues(WithStat(rows, "AREA HARVESTED")),
     areaPlanted |-> SumValues(WithStat(rows, "AREA PLANTED")),
     revenue |-> MaxValue(SelectSeq(rows,
                     LAMBDA r : r.statisticcat_desc = "SALES" /\ r.unit_desc = "$")),
     prodUnit |-> UnitOf(rows, "PRODUCTION"),
     yieldUnit |-> UnitOf(rows, "YIELD")]

\* mergedMap after the pass over the rows of the sector CROPS, in insertion
\* order
CropsPass(d, commodity) ==
    LET cropsData == SelectSeq(filterData(d),
                         LAMBDA r : r.commodity_desc = commodity
                                       /\ r.sector_desc = "CROPS")
        yearGroups == Group(cropsData, YearKeys(cropsData))
    IN  [g \in 1..Len(yearGroups) |->
            CropsPoint(yearGroups[g].rows, yearGroups[g].key)]

\* the position of the year in mergedMap, 0 if it has none
PositionOf(merged, year) ==
    IF \E i \in 1..Len(merged) : merged[i].year = year
        THEN CHOOSE i \in 1..Len(merged) : merged[i].year = year
        ELSE 0

\* the merge that takes the recomputed revenue whatever the point holds
WithRevenueAlways(existing, r) == [existing EXCEPT !.revenue = r.revenue]

\* if (existing.revenue === 0) existing.revenue = r.revenue
WithRevenue(existing, r) ==
    IF existing.revenue = 0 THEN [existing EXCEPT !.revenue = r.revenue]
    ELSE existing

\* revData.forEach
RECURSIVE MergeRevenue(_, _)
MergeRevenue(merged, revData) ==
    IF revData = <<>> THEN merged
    ELSE LET r == Head(revData)
             at == PositionOf(merged, r.year)
         IN  MergeRevenue(
                 IF at # 0
                     THEN [merged EXCEPT ![at] = WithRevenue(merged[at], r)]
                     ELSE Append(merged,
                              [year |-> r.year, production |-> 0,
                               yield |-> Frac(0, 1), areaHarvested |-> 0,
                               areaPlanted |-> 0, revenue |-> r.revenue,
                               prodUnit |-> "", yieldUnit |-> ""]),
                 Tail(revData))

\* the points left as the revenue merge made them
MergePlantedNone(merged, plantedData) == merged

\* plantedData.forEach
RECURSIVE MergePlanted(_, _)
MergePlanted(merged, plantedData) ==
    IF plantedData = <<>> THEN merged
    ELSE LET p == Head(plantedData)
             at == PositionOf(merged, p.year)
         IN  MergePlanted(
                 IF at # 0 /\ merged[at].areaPlanted = 0
                     THEN [merged EXCEPT ![at].areaPlanted = p.areaPlanted]
                     ELSE merged,
                 Tail(plantedData))

\* the tag that marks no year
HasYearNever(anomalyYears, year) == FALSE

\* anomalyYears.has(d.year)
HasYear(anomalyYears, year) == Contains(anomalyYears, year)

\* story.filter(d => d.yield > 0).map(d => ({ year: d.year, value: d.yield }))
YieldPairs(story) ==
    LET positive == SelectSeq(story, LAMBDA t : t.yield.num > 0)
    IN  [i \in 1..Len(positive) |->
            [year |-> positive[i].year, value |-> positive[i].yield]]

\* new Set(anomalies.map(a => a.year))
AnomalyYears(anomalies) ==
    Distinct([i \in 1..Len(anomalies) |-> anomalies[i].year])

\* story.forEach(d => { d.isAnomaly = anomalyYears.has(d.year) })
Tagged(point, anomalyYears) ==
    [year |-> point.year,
     production |-> point.production,
     yield |-> point.yield,
     areaHarvested |-> point.areaHarvested,
     areaPlanted |-> point.areaPlanted,
     revenue |-> point.revenue,
     prodUnit |-> point.prodUnit,
     yieldUnit |-> point.yieldUnit,
     isAnomaly |-> HasYear(anomalyYears, point.year)]

\* { story, anomalies, anomalyYears: Array.from(anomalyYears) }
StoryResult(story, anomalies, anomalyYears) ==
    [story |-> [i \in 1..Len(story) |-> Tagged(story[i], anomalyYears)],
     anomalies |-> anomalies,
     anomalyYears |-> anomalyYears]

\* the sorted story with the anomalies detected in it
WithAnomalies(story, anomalies) ==
    StoryResult(story, anomalies, AnomalyYears(anomalies))

\* Array.from(mergedMap.values()).sort(...) and what follows
Annotated(story) ==
    WithAnomalies(story, detectAnomalies(YieldPairs(story), Frac(1, 1)))

getCommodityStory(d, commodity) ==
    Annotated(SortByYearAsc(
        MergePlanted(MergeRevenue(CropsPass(d, commodity),
                                  getRevenueForCommodity(d, commodity)),
                     getAreaPlantedForCommodity(d, commodity))))

-----------------------------------------------------------------------------
(* The calls of the commodity functions.  The records carry the sector.     *)

StoryRecord(c, y, sector, stat, unit, v) ==
    [state_alpha |-> "IN", year |-> y, commodity_desc |-> c,
     statisticcat_desc |-> stat, unit_desc |-> unit, source_desc |-> "SURVEY",
     domain_desc |-> "TOTAL", sector_desc |-> sector, value_num |-> Num(v),
     Value |-> Undef]

StoryRecords ==
    {StoryRecord("CORN", 2020, "CROPS", "SALES", "$", 10),
     StoryRecord("CORN", 2020, "CROPS", "SALES", "$", 30),
     StoryRecord("CORN", 2020, "CROPS", "SALES", "$", -3),
     StoryRecord("CORN", 2020, "ECONOMICS", "SALES", "$", 50),
     StoryRecord("CORN", 2021, "ECONOMICS", "SALES", "$", 50),
     StoryRecord("CORN", 2020, "CROPS", "SALES", "PCT", 99),
     StoryRecord("SOY", 2020, "CROPS", "SALES", "$", 70),
     StoryRecord("CORN", 2020, "CROPS", "PRODUCTION", "BU", 7),
     StoryRecord("CORN", 2020, "CROPS", "YIELD", "BU / ACRE", 150),
     StoryRecord("CORN", 2020, "CROPS", "YIELD", "BU / ACRE", 155),
     StoryRecord("CORN", 2019, "CROPS", "YIELD", "BU / ACRE", 40),
     StoryRecord("CORN", 2020, "CROPS", "AREA HARVESTED", "ACRES", 18),
     StoryRecord("CORN", 2020, "CROPS", "AREA PLANTED", "ACRES", 20),
     StoryRecord("CORN", 2020, "ECONOMICS", "AREA PLANTED", "ACRES", 25),
     [StoryRecord("CORN", 2020, "CROPS", "SALES", "$", 0) EXCEPT
         !.value_num = Undef, !.Value = Str(<<"(", "D", ")">>)]}

YieldValues == {40, 150, 160}

\* a yield row for each of n years, the latest year first, and after them
\* the rows of extra
YieldTable(n, v, extra) ==
    [i \in 1..n |->
        StoryRecord("CORN", SeriesYears[n + 1 - i], "CROPS", "YIELD",
                    "BU / ACRE", v[i])] \o extra

InitStory ==
    /\ \/ \E n \in 0..MaxRecs : data \in [1..n -> StoryRecords]
       \/ \E n \in 1..MaxSeries : \E v \in [1..n -> YieldValues] :
            \E extra \in {<<>>,
                          <<StoryRecord("CORN", 2017, "ECONOMICS", "SALES", "$", 50)>>} :
                data = YieldTable(n, v, extra)
    /\ args = <<>>
    /\ called = "none"
    /\ output = <<>>

CallGetRevenueForCommodity ==
    /\ called = "none"
    /\ \E c \in {"CORN", "SOY"} :
        /\ args' = [commodity |-> c]
        /\ output' = getRevenueForCommodity(data, c)
    /\ called' = "getRevenueForCommodity"
    /\ UNCHANGED data

CallGetAreaPlantedForCommodity ==
    /\ called = "none"
    /\ \E c \in {"CORN", "SOY"} :
        /\ args' = [commodity |-> c]
        /\ output' = getAreaPlantedForCommodity(data, c)
    /\ called' = "getAreaPlantedForCommodity"
    /\ UNCHANGED data

CallGetCommodityStory ==
    /\ called = "none"
    /\ \E c \in {"CORN", "SOY"} :
        /\ args' = [commodity |-> c]
        /\ output' = getCommodityStory(data, c)
    /\ called' = "getCommodityStory"
    /\ UNCHANGED data

NextStory ==
    \/ CallGetRevenueForCommodity
    \/ CallGetAreaPlantedForCommodity
    \/ CallGetCommodityStory

SpecStory == InitStory /\ [][NextStory]_vars

-----------------------------------------------------------------------------
(* Statements about the commodity functions *)

\* the largest number of the set, 0 for the empty set
MaxOf(S) == IF S = {} THEN 0 ELSE CHOOSE m \in S : \A x \in S : x <= m

\* the normalized values of the $ SALES rows of the commodity in the year
\* among rows, those of the given sectors only
SalesValues(rows, commodity, year, sectors) ==
    {ValueOf(rows[i]).n : i \in {j \in 1..Len(rows) :
        /\ rows[j].commodity_desc = commodity
        /\ rows[j].year = year
        /\ rows[j].statisticcat_desc = "SALES"
        /\ rows[j].unit_desc = "$"
        /\ rows[j].sector_desc \in sectors
        /\ ValueOf(rows[j]).t = "num"}}

Sectors == {"CROPS", "ECONOMICS"}

\* the years of the filtered rows
YearsOf(rows) == {rows[i].year : i \in 1..Len(rows)}

\* C13 as stated: in both functions the revenue of a year is the largest
\* value among all of that year's $ SALES rows of the commodity
C13_RevenueIsMaxOfAllSales ==
    LET clean == filterData(data)
    IN  /\ called = "getRevenueForCommodity" =>
            \A i \in 1..Len(output) :
                output[i].revenue =
                    MaxOf(SalesValues(clean, args.commodity, output[i].year, Sectors))
        /\ called = "getCommodityStory" =>
            \A i \in 1..Len(output.story) :
                output.story[i].revenue =
                    MaxOf(SalesValues(clean, args.commodity,
                                      output.story[i].year, Sectors))

(* C13: in getRevenueForCommodity the revenue of a returned year is the     *)
(* maximum single normalized value among that year's $ SALES rows of the    *)
(* commodity, and the returned years are those where it is positive.  In    *)
(* getCommodityStory the revenue of a year point is the maximum among that  *)
(* year's $ SALES rows of the commodity in sector CROPS when that maximum   *)
(* is not 0, otherwise the maximum among all of the year's $ SALES rows of  *)
(* the commodity when that is positive, otherwise 0.  It is never a sum,    *)
(* and rows that are not SALES or not in $ never affect it.                 *)
C13_RevenueIsMax ==
    LET clean == filterData(data)
    IN  /\ called = "getRevenueForCommodity" =>
            /\ \A i \in 1..Len(output) :
                output[i].revenue =
                    MaxOf(SalesValues(clean, args.commodity, output[i].year, Sectors))
            /\ {output[i].year : i \in 1..Len(output)} =
                   {y \in YearsOf(clean) :
                       MaxOf(SalesValues(clean, args.commodity, y, Sectors)) > 0}
        /\ called = "getCommodityStory" =>
            \A i \in 1..Len(output.story) :
                LET y == output.story[i].year
                    crops == MaxOf(SalesValues(clean, args.commodity, y, {"CROPS"}))
                    all == MaxOf(SalesValues(clean, args.commodity, y, Sectors))
                IN  output.story[i].revenue =
                        IF crops # 0 THEN crops
                        ELSE IF all > 0 THEN all
                        ELSE 0

\* two $ SALES rows of 10 and 30 and a SALES row that is not in $: the
\* revenue is 30
C13_Witness ==
    /\ called = "getCommodityStory"
    /\ args.commodity = "CORN"
    /\ Len(data) = 3
    /\ \E i \in 1..3 : data[i] = StoryRecord("CORN", 2020, "CROPS", "SALES", "$", 10)
    /\ \E i \in 1..3 : data[i] = StoryRecord("CORN", 2020, "CROPS", "SALES", "$", 30)
    /\ \E i \in 1..3 : data[i] = StoryRecord("CORN", 2020, "CROPS", "SALES", "PCT", 99)
    /\ Len(output.story) = 1
    /\ output.story[1].revenue = 30

\* the point of the year in the points, which hold every year at most once
PointOf(points, year) ==
    points[CHOOSE i \in 1..Len(points) : points[i].year = year]

\* the revenue / area planted that the pass over the entire record set gives
\* for the year, 0 if it lists no such year
Recomputed(list, year, field) ==
    IF \E i \in 1..Len(list) : list[i].year = year
        THEN PointOf(list, year)[field]
        ELSE 0

(* C14: in getCommodityStory the revenue and area-planted values recomputed *)
(* from the entire record set are merged into a year point only when the    *)
(* crops-sector pass produced 0 for that field; a nonzero crops-sector      *)
(* revenue or area-planted value of a year is never overwritten, and        *)
(* production, yield and area-harvested of an existing year point are never *)
(* changed by the merge.                                                    *)
C14_MergeOnlyFillsZero ==
    called = "getCommodityStory" =>
        LET crops == CropsPass(data, args.commodity)
            revData == getRevenueForCommodity(data, args.commodity)
            plantedData == getAreaPlantedForCommodity(data, args.commodity)
        IN  \A i \in 1..Len(crops) :
                LET before == crops[i]
                    same == {j \in 1..Len(output.story) :
                                output.story[j].year = before.year}
                IN  /\ Cardinality(same) = 1
                    /\ \A j \in same :
                        LET after == output.story[j]
                        IN  /\ after.production = before.production
                            /\ after.yield = before.yield
                            /\ after.areaHarvested = before.areaHarvested
                            /\ after.revenue =
                                   IF before.revenue # 0 THEN before.revenue
                                   ELSE Recomputed(revData, before.year, "revenue")
                            /\ after.areaPlanted =
                                   IF before.areaPlanted # 0 THEN before.areaPlanted
                                   ELSE Recomputed(plantedData, before.year,
                                                   "areaPlanted")

\* the crops-sector revenue 10 stays although the entire record set gives 50,
\* next to a production figure
C14_Witness ==
    /\ called = "getCommodityStory"
    /\ args.commodity = "CORN"
    /\ data = <<StoryRecord("CORN", 2020, "CROPS", "SALES", "$", 10),
                StoryRecord("CORN", 2020, "ECONOMICS", "SALES", "$", 50),
                StoryRecord("CORN", 2020, "CROPS", "PRODUCTION", "BU", 7)>>
    /\ getRevenueForCommodity(data, "CORN") = <<[year |-> 2020, revenue |-> 50]>>
    /\ Len(output.story) = 1
    /\ output.story[1].revenue = 10
    /\ output.story[1].production = 7

\* the product of the denominators of the yields
RECURSIVE DenProduct(_)
DenProduct(points) ==
    IF points = <<>> THEN 1 ELSE Head(points).yield.den * DenProduct(Tail(points))

\* the years of the story whose yield is positive and strictly below mean -
\* stddev of the positive yields, none with fewer than 3 positive yields
DipYears(story) ==
    LET scale == DenProduct(story)
        whole == [i \in 1..Len(story) |->
                     story[i].yield.num * (scale \div story[i].yield.den)]
        pos == {i \in 1..Len(story) : whole[i] > 0}
        n == Cardinality(pos)
        S == SumOver(whole, pos)
        Q == SumOver([i \in 1..Len(story) |-> whole[i] * whole[i]], pos)
    IN  IF n < 3 THEN {}
        ELSE {story[i].year : i \in {j \in pos :
                  StrictlyBelow(whole[j], n, S, Q, 1, 1)}}

(* C15: getCommodityStory returns the story sorted ascending by year, and a *)
(* year point has isAnomaly = true if and only if its year is in the        *)
(* returned anomalyYears list, which is exactly the set of years flagged by *)
(* detectAnomalies (sensitivity 1) on the merged series of points with      *)
(* positive yield.                                                          *)
C15_StorySortedAndTagged ==
    called = "getCommodityStory" =>
        LET story == output.story
            listed == {output.anomalyYears[i] : i \in 1..Len(output.anomalyYears)}
        IN  /\ \A i \in 1..Len(story) : \A j \in 1..Len(story) :
                i < j => story[i].year < story[j].year
            /\ \A i \in 1..Len(story) : story[i].isAnomaly <=> story[i].year \in listed
            /\ listed = DipYears(story)
            /\ listed = {output.anomalies[i].year : i \in 1..Len(output.anomalies)}
            /\ Len(output.anomalyYears) = Cardinality(listed)

\* four years given latest first with a dip in 2020, and a year that has a
\* revenue only
C15_Witness ==
    /\ called = "getCommodityStory"
    /\ args.commodity = "CORN"
    /\ Len(data) = 5
    /\ Len(output.story) = 5
    /\ output.story[1].year = 2017
    /\ output.story[1].yield = Frac(0, 1)
    /\ output.anomalyYears = <<2020>>
    /\ output.story[4].isAnomaly
    /\ ~output.story[3].isAnomaly

-----------------------------------------------------------------------------
(* getLaborTrends.  A row of the result is the year and, under `fields`,    *)
(* the properties 'National Avg', the selected state and the peer states   *)
(* that were assigned; their values are NaN or exact fractions.             *)

LABOR_REGION_PEERS ==
    "IA" :> <<"IL", "NE", "MN">>
    @@ "IL" :> <<"IA", "IN", "MO">>
    @@ "IN" :> <<"OH", "IL", "KY">>
    @@ "OH" :> <<"IN", "MI", "PA">>
    @@ "MO" :> <<"IL", "IA", "KS">>
    @@ "KS" :> <<"NE", "OK", "CO">>
    @@ "NE" :> <<"IA", "KS", "SD">>
    @@ "ND" :> <<"SD", "MN", "MT">>
    @@ "SD" :> <<"ND", "NE", "MN">>
    @@ "OK" :> <<"KS", "TX", "AR">>
    @@ "GA" :> <<"AL", "SC", "FL">>
    @@ "AL" :> <<"GA", "MS", "TN">>
    @@ "MS" :> <<"AL", "AR", "LA">>
    @@ "NC" :> <<"SC", "VA", "GA">>
    @@ "SC" :> <<"NC", "GA", "VA">>
    @@ "CA" :> <<"WA", "OR", "AZ">>
    @@ "WA" :> <<"OR", "CA", "ID">>
    @@ "OR" :> <<"WA", "CA", "ID">>
    @@ "TX" :> <<"OK", "KS", "NM">>
    @@ "CO" :> <<"KS", "NE", "WY">>
    @@ "NY" :> <<"PA", "NJ", "VT">>
    @@ "PA" :> <<"NY", "OH", "NJ">>
    @@ "WI" :> <<"MN", "IA", "MI">>
    @@ "MN" :> <<"WI", "IA", "ND">>
    @@ "MI" :> <<"OH", "WI", "IN">>
    @@ "FL" :> <<"GA", "AL", "SC">>
    @@ "AR" :> <<"MO", "MS", "OK">>
    @@ "LA" :> <<"MS", "AR", "TX">>
    @@ "MT" :> <<"ND", "WY", "ID">>
    @@ "ID" :> <<"WA", "OR", "MT">>
    @@ "AZ" :> <<"CA", "NM", "CO">>

\* || ['CA', 'TX', 'IA']
DefaultPeers == <<"CA", "TX", "IA">>

\* selectedState ? String(selectedState).toUpperCase() : 'INDIANA', also for an
\* omitted argument
CleanState(selectedState) ==
    IF TruthyLabel(selectedState) THEN toUpperCase(selectedState) ELSE "INDIANA"

\* LABOR_REGION_PEERS[cleanState] || ['CA', 'TX', 'IA']
ComparisonStates(cleanState) ==
    IF cleanState \in DOMAIN LABOR_REGION_PEERS
        THEN LABOR_REGION_PEERS[cleanState]
        ELSE DefaultPeers

Ratio(q) == [t |-> "ratio", q |-> q]

\* the number that cleanValue returned, or NaN
Wage(d) ==
    LET v == ValueOf(d) IN IF v.t = "num" THEN Ratio(Frac(v.n, 1)) ELSE NaN

\* rows.filter(d => d.state_alpha === st), of which find takes the first
RowsOfState(rows, st) == SelectSeq(rows, LAMBDA d : d.state_alpha = st)

\* the lookup that never finds a national row
NationalRowsNone(rows) == <<>>

\* rows.find(d => d.state_alpha === 'US')
NationalRows(rows) == RowsOfState(rows, "US")

\* the properties set under "1. National Avg"
NationalFields(rows) ==
    LET national == NationalRows(rows)
    IN  IF national # <<>> THEN [k \in {"National Avg"} |-> Wage(national[1])]
        ELSE LET vals == NumbersOf(SelectSeq(rows,
                                       LAMBDA d : d.state_alpha # "US"))
             IN  IF Len(vals) = 0 THEN <<>>
                 ELSE [k \in {"National Avg"} |->
                          Ratio(FracMean([i \in 1..Len(vals) |-> Frac(vals[i], 1)]))]

\* the peer list that the rows are filled from, were it always the default
LookupStatesDefault(comparisonStates) == DefaultPeers

\* comparisonStates.forEach(st => ...) walks the resolved list
LookupStates(comparisonStates) == comparisonStates

\* the properties of the selected state and of the peers that have a row
StateFields(rows, cleanState, comparisonStates) ==
    LET looked == LookupStates(comparisonStates)
        named == {cleanState} \cup {looked[i] : i \in 1..Len(looked)}
    IN  [st \in {x \in named : RowsOfState(rows, x) # <<>>} |->
            Wage(RowsOfState(rows, st)[1])]

\* the union of two property maps with no property in common
Merged(f, g) ==
    [k \in DOMAIN f \cup DOMAIN g |-> IF k \in DOMAIN f THEN f[k] ELSE g[k]]

getLaborTrends(d, selectedState) ==
    LET wageData == WithStat(filterData(d), "WAGE RATE")
        cleanState == CleanState(selectedState)
        comparisonStates == ComparisonStates(cleanState)
        yearGroups == Group(wageData, YearKeys(wageData))
        trends == [g \in 1..Len(yearGroups) |->
                      [year |-> yearGroups[g].key,
                       fields |-> Merged(NationalFields(yearGroups[g].rows),
                                         StateFields(yearGroups[g].rows,
                                                     cleanState, comparisonStates))]]
    IN  [trends |-> SortByYearAsc(trends), comparisonStates |-> comparisonStates]

-----------------------------------------------------------------------------
(* The call of getLaborTrends *)

WageRecord(st, y, v) ==
    [BaseRecord EXCEPT !.state_alpha = st, !.year = y,
                       !.commodity_desc = "LABOR", !.statisticcat_desc = "WAGE RATE",
                       !.unit_desc = "$ / HOUR", !.value_num = Num(v)]

LaborRecords ==
    {WageRecord("US", 2020, 15), WageRecord("US", 2021, 16),
     WageRecord("IN", 2020, 10), WageRecord("IN", 2020, 11),
     WageRecord("IN", 2021, 12), WageRecord("OH", 2020, 30),
     WageRecord("TX", 2020, 31), WageRecord("CA", 2020, 40),
     WageRecord("KS", 2020, 25), WageRecord(Absent, 2020, 50),
     [WageRecord("US", 2020, 0) EXCEPT
         !.value_num = Undef, !.Value = Str(<<"(", "D", ")">>)],
     [WageRecord("OH", 2021, 0) EXCEPT
         !.value_num = Undef, !.Value = Str(<<"(", "D", ")">>)],
     [WageRecord("IN", 2020, 99) EXCEPT !.statisticcat_desc = "AREA HARVESTED"]}

\* the omitted argument, the empty string, and codes with and without an entry
SelectedStates == {Absent, "", "IN", "in", "tx", "ZZ", "Indiana"}

InitLabor ==
    /\ \E n \in 0..MaxRecs : data \in [1..n -> LaborRecords]
    /\ args = <<>>
    /\ called = "none"
    /\ output = <<>>

CallGetLaborTrends ==
    /\ called = "none"
    /\ \E st \in SelectedStates :
        /\ args' = [selectedState |-> st]
        /\ output' = getLaborTrends(data, st)
    /\ called' = "getLaborTrends"
    /\ UNCHANGED data

NextLabor == CallGetLaborTrends

SpecLabor == InitLabor /\ [][NextLabor]_vars

-----------------------------------------------------------------------------
(* Statements about getLaborTrends *)

\* the filtered WAGE RATE rows of the year
WageRows(clean, year) ==
    SelectSeq(clean, LAMBDA r : r.statisticcat_desc = "WAGE RATE" /\ r.year = year)

(* C16: for each year in getLaborTrends the national average is the         *)
(* normalized value of the explicit national ("US") WAGE RATE row when such *)
(* a row exists for that year; otherwise it is the unweighted mean of the   *)
(* values of that year's state rows, and the national row is never included *)
(* in that mean.                                                            *)
C16_NationalAverage ==
    called = "getLaborTrends" =>
        LET clean == filterData(data)
        IN  \A i \in 1..Len(output.trends) :
                LET rows == WageRows(clean, output.trends[i].year)
                    fields == output.trends[i].fields
                    national == SelectSeq(rows, LAMBDA r : r.state_alpha = "US")
                    states == SelectSeq(rows,
                                  LAMBDA r : r.state_alpha # "US"
                                                /\ ValueOf(r).t = "num")
                IN  IF national # <<>>
                        THEN /\ "National Avg" \in DOMAIN fields
                             /\ fields["National Avg"] = Wage(national[1])
                    ELSE IF states # <<>>
                        THEN /\ "National Avg" \in DOMAIN fields
                             /\ fields["National Avg"].t = "ratio"
                             /\ fields["National Avg"].q.num * Len(states) =
                                    SumValues(states) * fields["National Avg"].q.den
                    ELSE "National Avg" \notin DOMAIN fields

\* a national row of 15 next to state rows of 10 and 30
C16_Witness ==
    /\ called = "getLaborTrends"
    /\ data = <<WageRecord("IN", 2020, 10), WageRecord("US", 2020, 15),
                WageRecord("OH", 2020, 30)>>
    /\ Len(output.trends) = 1
    /\ output.trends[1].fields["National Avg"] = Ratio(Frac(15, 1))

(* C17: getLaborTrends resolves the peer states to the static mapping's     *)
(* entry for the upper-cased selected state when one exists and to the      *)
(* default peer set [CA, TX, IA] otherwise; every mapping entry lists 2 to  *)
(* 3 states; the peer list exposed as metadata on the result is exactly the *)
(* list whose states are looked up to fill the peer fields of every row.    *)
C17_PeersResolvedAndExposed ==
    called = "getLaborTrends" =>
        LET clean == filterData(data)
            selected == IF args.selectedState \in {Absent, ""} THEN "INDIANA"
                        ELSE toUpperCase(args.selectedState)
            peers == {output.comparisonStates[i] :
                         i \in 1..Len(output.comparisonStates)}
        IN  /\ output.comparisonStates =
                   IF selected \in DOMAIN LABOR_REGION_PEERS
                       THEN LABOR_REGION_PEERS[selected]
                       ELSE <<"CA", "TX", "IA">>
            /\ \A k \in DOMAIN LABOR_REGION_PEERS :
                   Len(LABOR_REGION_PEERS[k]) \in 2..3
            /\ \A i \in 1..Len(output.trends) :
                LET rows == WageRows(clean, output.trends[i].year)
                    fields == output.trends[i].fields
                IN  /\ DOMAIN fields \subseteq {"National Avg", selected} \cup peers
                    /\ \A st \in peers :
                        LET own == SelectSeq(rows, LAMBDA r : r.state_alpha = st)
                        IN  IF own = <<>> THEN st \notin DOMAIN fields
                            ELSE st \in DOMAIN fields /\ fields[st] = Wage(own[1])

\* the selected state "in" resolves to the peers of IN, of which OH has a row
C17_Witness ==
    /\ called = "getLaborTrends"
    /\ args.selectedState = "in"
    /\ output.comparisonStates = <<"OH", "IL", "KY">>
    /\ Len(output.trends) = 1
    /\ DOMAIN output.trends[1].fields = {"National Avg", "IN", "OH"}
    /\ output.trends[1].fields["OH"] = Ratio(Frac(30, 1))

-----------------------------------------------------------------------------
(* Calls in sequence on one record collection.  `called` holds the          *)
(* operation of the last call, the number of calls made and whether the     *)
(* last call repeated the one before it with the same arguments.           *)

\* most calls in a sequence
MaxCalls == 2

\* the array after data.filter(...) sorted it in place
ArrayAfterSort(arr) == SortByYearAsc(arr)

\* data.filter(...), the one method the engine calls on its input array:
\* the array after the call
ArrayAfterFilter(arr) == arr

EngineRecords ==
    {StoryRecord("CORN", 2021, "CROPS", "AREA HARVESTED", "ACRES", 20000),
     StoryRecord("CORN", 2020, "CROPS", "AREA HARVESTED", "ACRES", 15000),
     StoryRecord("CORN", 2020, "CROPS", "AREA PLANTED", "ACRES", 16000),
     StoryRecord("CORN", 2020, "ECONOMICS", "SALES", "$", 50),
     [StoryRecord("LABOR", 2019, "ECONOMICS", "WAGE RATE", "$ / HOUR", 15)
         EXCEPT !.state_alpha = "US"]}

\* what the operation returns for the collection and the arguments
EngineResult(op, d, a) ==
    CASE op = "filterData" -> filterData(d)
      [] op = "getTopCrops" -> getTopCrops(d, a.year, a.metric)
      [] op = "getTrendData" -> getTrendData(d, a.metric, a.topCommodities)
      [] op = "getMapData" -> getMapData(d, a.year, a.metric)
      [] op = "getBoomCrops" -> getBoomCrops(d, a.metric, a.endYear, a.startYear)
      [] op = "getLandUseTrends" -> getLandUseTrends(d)
      [] op = "getLaborTrends" -> getLaborTrends(d, a.selectedState)
      [] op = "getRevenueForCommodity" -> getRevenueForCommodity(d, a.commodity)
      [] op = "getAreaPlantedForCommodity" -> getAreaPlantedForCommodity(d, a.commodity)
      [] op = "getCommodityStory" -> getCommodityStory(d, a.commodity)

InitEngine ==
    /\ \E n \in 0..MaxRecs : data \in [1..n -> EngineRecords]
    /\ args = <<>>
    /\ called = [op |-> "none", calls |-> 0, again |-> FALSE]
    /\ output = <<>>

EngineCall(op, argSets) ==
    /\ called.calls < MaxCalls
    /\ \E a \in argSets :
        /\ args' = a
        /\ output' = EngineResult(op, data, a)
        /\ called' = [op |-> op, calls |-> called.calls + 1,
                      again |-> (called.op = op /\ args = a)]
    /\ data' = ArrayAfterFilter(data)

CommodityArgs == {[commodity |-> "CORN"]}

NextEngine ==
    \/ EngineCall("filterData", {<<>>})
    \/ EngineCall("getTopCrops", {[year |-> 2020, metric |-> "AREA HARVESTED"]})
    \/ EngineCall("getTrendData",
                  {[metric |-> "AREA HARVESTED", topCommodities |-> <<"CORN">>]})
    \/ EngineCall("getMapData", {[year |-> 2020, metric |-> "AREA HARVESTED"]})
    \/ EngineCall("getBoomCrops",
                  {[metric |-> "AREA HARVESTED", endYear |-> 2021, startYear |-> 2020]})
    \/ EngineCall("getLandUseTrends", {<<>>})
    \/ EngineCall("getLaborTrends", {[selectedState |-> "IN"]})
    \/ EngineCall("getRevenueForCommodity", CommodityArgs)
    \/ EngineCall("getAreaPlantedForCommodity", CommodityArgs)
    \/ EngineCall("getCommodityStory", CommodityArgs)

SpecEngine == InitEngine /\ [][NextEngine]_vars

-----------------------------------------------------------------------------
(* Statements about calls in sequence *)

(* C19: for an empty record collection, filterData and every aggregation    *)
(* (getTopCrops, getTrendData, getMapData, getBoomCrops, getLandUseTrends,  *)
(* getLaborTrends, getCommodityStory) return an empty collection or mapping *)
(* (for getCommodityStory an empty story and an empty anomaly list), and    *)
(* none of them raises an error.                                            *)
C19_EmptyInEmptyOut ==
    (called.op # "none" /\ data = <<>>) =>
        CASE called.op \in {"filterData", "getTopCrops", "getTrendData",
                            "getBoomCrops", "getRevenueForCommodity",
                            "getAreaPlantedForCommodity"} ->
                 Len(output) = 0
          [] called.op = "getMapData" -> DOMAIN output = {}
          [] called.op = "getLandUseTrends" ->
                 /\ Len(output.trends) = 0
                 /\ Len(output.multiHarvestCrops) = 0
                 /\ output.pairedCropCount = 0
                 /\ output.excludedCropCount = 0
          [] called.op = "getLaborTrends" -> Len(output.trends) = 0
          [] called.op = "getCommodityStory" ->
                 /\ Len(output.story) = 0
                 /\ Len(output.anomalies) = 0
                 /\ Len(output.anomalyYears) = 0

\* the story of an empty collection
C19_Witness ==
    /\ data = <<>>
    /\ called.op = "getCommodityStory"
    /\ output.story = <<>>
    /\ output.anomalyYears = <<>>

-----------------------------------------------------------------------------
(* Calls of getCommodityStory and getLaborTrends on records whose value is  *)
(* a number, a true zero, suppressed or unparseable                         *)

\* value_num and Value of a record: 150, numeric 0 without and with the raw
\* string, the string "0", a suppression code, an unparseable string
ValueShapes ==
    {<<Num(150), Undef>>, <<Num(0), Undef>>, <<Num(0), Str(<<"0">>)>>,
     <<Undef, Str(<<"0">>)>>, <<Undef, Str(<<"(", "D", ")">>)>>,
     <<Undef, Str(<<"D">>)>>}

ZeroRecords ==
    {[StoryRecord("CORN", 2020, "CROPS", "YIELD", "BU / ACRE", 0) EXCEPT
         !.value_num = sh[1], !.Value = sh[2]] : sh \in ValueShapes}
    \cup {[StoryRecord("LABOR", 2020, "ECONOMICS", "WAGE RATE", "$ / HOUR", 0) EXCEPT
              !.value_num = sh[1], !.Value = sh[2]] : sh \in ValueShapes}
    \cup {[StoryRecord("CORN", 2020, "CROPS", "PRODUCTION", "BU", 0) EXCEPT
              !.value_num = sh[1], !.Value = sh[2]] :
             sh \in {<<Num(150), Undef>>, <<Undef, Str(<<"(", "D", ")">>)>>}}

InitZero ==
    /\ \E n \in 0..MaxRecs : data \in [1..n -> ZeroRecords]
    /\ args = <<>>
    /\ called = [op |-> "none", calls |-> 0, again |-> FALSE]
    /\ output = <<>>

NextZero ==
    \/ EngineCall("getCommodityStory", CommodityArgs)
    \/ EngineCall("getLaborTrends", {[selectedState |-> "IN"]})

SpecZero == InitZero /\ [][NextZero]_vars

-----------------------------------------------------------------------------
(* Statements about no-value and zero *)

\* the observation of a record: its numeric value if it has one, 0 included,
\* else its raw string normalized; NaN is the no-value observation
Observed(r) ==
    IF r.value_num.t = "num" THEN r.value_num ELSE cleanValue(r.Value)

\* the observations that are numbers, in row order
Observations(rows) ==
    LET valued == SelectSeq(rows, LAMBDA r : Observed(r).t = "num")
    IN  [i \in 1..Len(valued) |-> Observed(valued[i]).n]

RECURSIVE SumSeq(_)
SumSeq(ns) == IF ns = <<>> THEN 0 ELSE Head(ns) + SumSeq(Tail(ns))

(* C21: a no-value observation is kept distinct from a true zero            *)
(* observation in averages: in the mean yield of getCommodityStory and in   *)
(* the national-average fallback of getLaborTrends a record whose raw value *)
(* is suppressed or unparseable is excluded from the mean, while a record   *)
(* whose value is a true zero (numeric 0 or the string "0") is counted in   *)
(* the mean as 0; in sums both contribute 0.                                *)
C21_ZeroCountedNoValueExcluded ==
    LET clean == filterData(data)
    IN  /\ called.op = "getCommodityStory" =>
            \A i \in 1..Len(output.story) :
                LET rows == SelectSeq(clean,
                                LAMBDA r : /\ r.commodity_desc = args.commodity
                                           /\ r.sector_desc = "CROPS"
                                           /\ r.year = output.story[i].year)
                    yields == Observations(WithStat(rows, "YIELD"))
                    produced == Observations(WithStat(rows, "PRODUCTION"))
                IN  /\ output.story[i].production = SumSeq(produced)
                    /\ IF yields = <<>> THEN output.story[i].yield.num = 0
                       ELSE output.story[i].yield.num * Len(yields) =
                                SumSeq(yields) * output.story[i].yield.den
        /\ called.op = "getLaborTrends" =>
            \A i \in 1..Len(output.trends) :
                LET rows == WageRows(clean, output.trends[i].year)
                    fields == output.trends[i].fields
                    wages == Observations(rows)
                IN  (\A j \in 1..Len(rows) : rows[j].state_alpha # "US") =>
                        IF wages = <<>> THEN "National Avg" \notin DOMAIN fields
                        ELSE /\ "National Avg" \in DOMAIN fields
                             /\ fields["National Avg"].t = "ratio"
                             /\ fields["National Avg"].q.num * Len(wages) =
                                    SumSeq(wages) * fields["National Avg"].q.den

\* a yield of 150, a suppressed yield and a yield of numeric 0 in one year:
\* the mean is 150
C21_Witness ==
    /\ called.op = "getCommodityStory"
    /\ Len(data) = 3
    /\ \E i \in 1..3 : data[i].value_num = Num(150) /\ data[i].statisticcat_desc = "YIELD"
    /\ \E i \in 1..3 : data[i].value_num = Num(0) /\ data[i].Value = Undef
                          /\ data[i].statisticcat_desc = "YIELD"
    /\ \E i \in 1..3 : data[i].Value = Str(<<"(", "D", ")">>)
                          /\ data[i].statisticcat_desc = "YIELD"
    /\ Len(output.story) = 1
    /\ output.story[1].yield = Frac(150, 1)

-----------------------------------------------------------------------------
(* fetchParquet: the S3 bucket first, the local API proxy as fallback       *)

\* a file name as its segments between '/'
Filenames ==
    {<<"IN.parquet">>, <<"partitioned_states", "IN.parquet">>,
     <<"partitioned_states", "">>}

\* filename.includes('/') ? filename.split('/').pop() || filename : filename
justFilename(filename) ==
    IF Len(filename) > 1 /\ filename[Len(filename)] # ""
    THEN <<filename[Len(filename)]>>
    ELSE filename

\* the bytes a source can serve: parquet files of zero, one and two rows,
\* a file without row groups and bytes that are not parquet
Buffers == {"two rows", "one row", "no rows", "no row groups", "corrupt"}

\* resolves with the rows, or with [] when there are no row groups or the
\* metadata cannot be read
parseParquetBuffer(arrayBuffer) ==
    CASE arrayBuffer = "two rows" ->
            <<[state_alpha |-> "IN", year |-> 2020], [state_alpha |-> "IN", year |-> 2021]>>
      [] arrayBuffer = "one row" -> <<[state_alpha |-> "IN", year |-> 2020]>>
      [] OTHER -> <<>>

\* what a fetch does: throws, answers with a status that is not OK, or
\* answers OK with a body whose read throws or yields bytes
Responses ==
    {[status |-> "throws", body |-> "none"], [status |-> "not ok", body |-> "none"],
     [status |-> "ok", body |-> "throws"]}
    \cup {[status |-> "ok", body |-> b] : b \in Buffers}

\* where fetchParquet continues after the S3 response: the body is read only
\* of an OK response, every other outcome falls through to the local API
AfterS3AlwaysApi(response) == "api"

AfterS3(response) == IF response.status = "ok" THEN "s3 body" ELSE "api"

AfterApi(response) == IF response.status = "ok" THEN "api body" ELSE "failed"

InitFetch ==
    /\ data \in [s3 : Responses, api : Responses]
    /\ args \in [filename : Filenames]
    /\ called = [pc |-> "start", contacted |-> <<>>]
    /\ output = <<>>

FetchS3 ==
    /\ called.pc = "start"
    /\ called' = [pc |-> AfterS3(data.s3),
                  contacted |-> Append(called.contacted,
                                    [source |-> "S3", file |-> justFilename(args.filename)])]
    /\ UNCHANGED <<data, args, output>>

ReadS3Body ==
    /\ called.pc = "s3 body"
    /\ IF data.s3.body = "throws"
       THEN called' = [called EXCEPT !.pc = "api"] /\ UNCHANGED output
       ELSE /\ called' = [called EXCEPT !.pc = "done"]
            /\ output' = parseParquetBuffer(data.s3.body)
    /\ UNCHANGED <<data, args>>

FetchApi ==
    /\ called.pc = "api"
    /\ called' = [pc |-> AfterApi(data.api),
                  contacted |-> Append(called.contacted,
                                    [source |-> "API", file |-> args.filename])]
    /\ UNCHANGED <<data, args, output>>

ReadApiBody ==
    /\ called.pc = "api body"
    /\ IF data.api.body = "throws"
       THEN called' = [called EXCEPT !.pc = "failed"] /\ UNCHANGED output
       ELSE /\ called' = [called EXCEPT !.pc = "done"]
            /\ output' = parseParquetBuffer(data.api.body)
    /\ UNCHANGED <<data, args>>

ReturnEmpty ==
    /\ called.pc = "failed"
    /\ called' = [called EXCEPT !.pc = "done"]
    /\ output' = <<>>
    /\ UNCHANGED <<data, args>>

NextFetch == FetchS3 \/ ReadS3Body \/ FetchApi \/ ReadApiBody \/ ReturnEmpty

SpecFetch == InitFetch /\ [][NextFetch]_vars

\* an attempt fails when the fetch throws, the response is not OK or the
\* read of the body throws
AttemptFailed(response) == response.status # "ok" \/ response.body = "throws"

(* C22: fetchParquet attempts the S3 source first, attempts the local API   *)
(* proxy only if the S3 attempt failed (non-OK response or thrown error),   *)
(* and returns an empty array instead of throwing when both attempts fail;  *)
(* when the S3 attempt succeeds the local API is never contacted.           *)
C22_S3FirstApiOnlyAfterFailure ==
    LET log == called.contacted
    IN  /\ called.pc \in {"start", "s3 body", "api", "api body", "failed", "done"}
        /\ Len(log) <= 2
        /\ called.pc # "start" => Len(log) >= 1
        /\ Len(log) >= 1 =>
              log[1] = [source |-> "S3", file |-> justFilename(args.filename)]
        /\ Len(log) = 2 =>
              /\ log[2] = [source |-> "API", file |-> args.filename]
              /\ AttemptFailed(data.s3)
        /\ called.pc = "done" =>
              IF ~AttemptFailed(data.s3)
              THEN Len(log) = 1 /\ output = parseParquetBuffer(data.s3.body)
              ELSE /\ Len(log) = 2
                   /\ output = IF AttemptFailed(data.api) THEN <<>>
                               ELSE parseParquetBuffer(data.api.body)

\* S3 answers with a status that is not OK, the read of the local API's body
\* throws: both were contacted in this order and the result is empty
C22_Witness ==
    /\ called.pc = "done"
    /\ data.s3.status = "not ok"
    /\ data.api = [status |-> "ok", body |-> "throws"]
    /\ args.filename = <<"partitioned_states", "IN.parquet">>
    /\ called.contacted = <<[source |-> "S3", file |-> <<"IN.parquet">>],
                            [source |-> "API", file |-> <<"partitioned_states", "IN.parquet">>]>>
    /\ output = <<>>

-----------------------------------------------------------------------------
(* Statements about the threshold of getBoomCrops *)

\* the positive start-year aggregates of the call, ascending
PositiveStarts(clean) ==
    LET startValues == getYearValues(clean, args.metric, args.startYear)
        vals == [i \in 1..Len(startValues) |-> startValues[i].value]
    IN  SortAsc(SelectSeq(vals, LAMBDA v : v > 0))

\* the median of an ascending non-empty sequence: the middle value, or the
\* mean of the two middle values of an even number of values
ConventionalMedian(sorted) ==
    LET n == Len(sorted)
    IN  IF n % 2 = 1 THEN Frac(sorted[(n + 1) \div 2], 1)
        ELSE Frac(sorted[n \div 2] + sorted[(n \div 2) + 1], 2)

\* the larger of the floor and a quarter of the conventional median
ConventionalThreshold(sorted) ==
    IF sorted = <<>> THEN Frac(BoomFloor, 1)
    ELSE LET m == ConventionalMedian(sorted)
         IN  FracMax(Frac(BoomFloor, 1), Frac(m.num, 4 * m.den))

ScenarioC23 ==
    BoomTable(2, <<<<20000>>, <<100000>>>>, <<<<150000>>, <<150000>>>>)

(* C23: the dynamic minimum threshold used by getBoomCrops equals the       *)
(* larger of the fixed floor 10000 and one quarter of the median of the     *)
(* positive start-year category values (for an even number of positive      *)
(* values, the median of that set as conventionally defined); a category is *)
(* admitted only if its start-year value strictly exceeds this threshold.   *)
C23_ThresholdIsQuarterMedian ==
    called = "getBoomCrops" =>
        LET clean == filterData(data)
            startValues == getYearValues(clean, args.metric, args.startYear)
            claimed == ConventionalThreshold(PositiveStarts(clean))
        IN  /\ minThreshold(startValues) = claimed
            /\ \A i \in 1..Len(output) :
                   FracLess(claimed, Frac(output[i].start, 1))

\* start values 20000 and 100000: the threshold used is 25000, a quarter of
\* the larger one, and the category that started at 20000 is not admitted
C23_Witness ==
    /\ called = "getBoomCrops"
    /\ data = ScenarioC23
    /\ args.startYear = 2020
    /\ minThreshold(getYearValues(filterData(data), args.metric, args.startYear))
           = Frac(25000, 1)
    /\ Len(output) = 1
    /\ output[1].commodity = "B"

-----------------------------------------------------------------------------
(* Statements about the multi-harvest flag of getLandUseTrends *)

\* the years in which category c has a row of the statistic
YearsReporting(rows, c, stat) ==
    {rows[i].year : i \in {j \in 1..Len(rows) :
        rows[j].commodity_desc = c /\ rows[j].statisticcat_desc = stat}}

\* the years of Y in which harvested / planted of category c exceeds 1.5
RatioYears(rows, c, Y) ==
    {y \in Y : /\ AreaSum(rows, {c}, y, "AREA PLANTED") > 0
               /\ 2 * AreaSum(rows, {c}, y, "AREA HARVESTED")
                      > 3 * AreaSum(rows, {c}, y, "AREA PLANTED")}

\* the categories listed as multi-harvest
Listed == {output.multiHarvestCrops[i] : i \in 1..Len(output.multiHarvestCrops)}

ScenarioC24 ==
    <<LandRow("CORN", "AREA PLANTED", 2020, 30),
      LandRow("CORN", "AREA HARVESTED", 2020, 50),
      LandRow("CORN", "AREA HARVESTED", 2021, 50)>>

(* C24 as stated: getLandUseTrends lists a paired category as multi-harvest *)
(* if and only if, among the years in which the category has both a         *)
(* planted and a harvested aggregate, the ratio harvested/planted exceeds   *)
(* 1.5 in more than half of those years; a year in which the category       *)
(* reports only one of the two statistics does not count toward that        *)
(* denominator.                                                             *)
C24_MajorityOfPairedYears ==
    called = "getLandUseTrends" =>
        LET clean == filterData(data)
            both == Reporting(clean, "AREA PLANTED")
                        \cap Reporting(clean, "AREA HARVESTED")
        IN  /\ Listed \subseteq both
            /\ \A c \in both :
                 LET Y == YearsReporting(clean, c, "AREA PLANTED")
                              \cap YearsReporting(clean, c, "AREA HARVESTED")
                 IN  c \in Listed <=>
                         2 * Cardinality(RatioYears(clean, c, Y)) > Cardinality(Y)

(* C24 amended: getLandUseTrends lists a paired category as multi-harvest   *)
(* if and only if the ratio harvested/planted exceeds 1.5 (with a positive  *)
(* planted sum) in more than half of all the years in which the category    *)
(* has a planted or a harvested row; a year with only one of the two        *)
(* statistics counts toward the denominator.                                *)
C24_MajorityOfAllYears ==
    called = "getLandUseTrends" =>
        LET clean == filterData(data)
            both == Reporting(clean, "AREA PLANTED")
                        \cap Reporting(clean, "AREA HARVESTED")
        IN  /\ Listed \subseteq both
            /\ \A c \in both :
                 LET Y == YearsReporting(clean, c, "AREA PLANTED")
                              \cup YearsReporting(clean, c, "AREA HARVESTED")
                 IN  c \in Listed <=>
                         2 * Cardinality(RatioYears(clean, c, Y)) > Cardinality(Y)

\* a ratio of 50/30 in the only year with both statistics and a second year
\* with a harvest only: not listed
C24_Witness ==
    /\ called = "getLandUseTrends"
    /\ data = ScenarioC24
    /\ output.pairedCropCount = 1
    /\ output.multiHarvestCrops = <<>>

-----------------------------------------------------------------------------
(* Statements about the rows filterData keeps *)

\* how often the record occurs in the sequence
Occurrences(s, r) == Cardinality({i \in 1..Len(s) : s[i] = r})

\* the passing records of the input with the key of r
KeyGroup(r) ==
    {q \in RowsOf(data) : Included(q) /\ CompositeKey(q) = CompositeKey(r)}

(* C25: deduplication in filterData discards only CENSUS-provenance rows:   *)
(* every record that passes the three inclusion rules and whose provenance  *)
(* is not CENSUS (SURVEY or no provenance tag) appears in the output, also  *)
(* when its key group contains both SURVEY and CENSUS rows; in a group that *)
(* lacks SURVEY or lacks CENSUS all rows are kept.                          *)
C25_OnlyCensusDiscarded ==
    called = "filterData" =>
        \A r \in RowsOf(data) :
            Included(r) =>
                /\ r.source_desc # "CENSUS" =>
                       Occurrences(output, r) = Occurrences(data, r)
                /\ (\/ \A q \in KeyGroup(r) : q.source_desc # "SURVEY"
                    \/ \A q \in KeyGroup(r) : q.source_desc # "CENSUS") =>
                       Occurrences(output, r) = Occurrences(data, r)

\* an untagged row whose key is also reported by a SURVEY row and a CENSUS
\* row is not returned
C25_Witness ==
    /\ called = "filterData"
    /\ Len(data) = 3
    /\ data[1] = [BaseRecord EXCEPT !.source_desc = Absent]
    /\ data[2] = BaseRecord
    /\ data[3] = [BaseRecord EXCEPT !.source_desc = "CENSUS"]
    /\ output = <<BaseRecord>>

-----------------------------------------------------------------------------
(* Calls of getMapData for the revenue metric *)

MapRevenueRecords ==
    {[RevenueRecord(c, 2020, st) EXCEPT !.state_alpha = sa] :
        c \in {"CORN", "SOY"}, st \in {"SALES", "PRODUCTION", "VALUE"},
        sa \in {"IN", "TX"}}
    \cup {[RevenueRecord("CORN", 2020, "SALES") EXCEPT
              !.unit_desc = "HEAD", !.value_num = Num(7)]}

InitMapRevenue ==
    /\ \E n \in 0..MaxRecs : data \in [1..n -> MapRevenueRecords]
    /\ args = <<>>
    /\ called = [op |-> "none", calls |-> 0, again |-> FALSE]
    /\ output = <<>>

NextMapRevenue ==
    EngineCall("getMapData", {[year |-> y, metric |-> "SALES"] : y \in Years})

SpecMapRevenue == InitMapRevenue /\ [][NextMapRevenue]_vars

-----------------------------------------------------------------------------
(* Statements about getMapData and the revenue metric *)

\* the sum of the values getTopCrops computes for the records of the state
TopCropsTotal(d, st, year, metric) ==
    LET top == getTopCrops(SelectSeq(d, LAMBDA r : r.state_alpha = st),
                           year, metric)
    IN  SumSeq([i \in 1..Len(top) |-> top[i].value])

(* C26: getMapData applies the same metric-resolution rule as getTopCrops   *)
(* and getTrendData: for the revenue metric SALES each category's           *)
(* contribution to a state's value comes from its dollar SALES rows if      *)
(* present, else its dollar PRODUCTION rows, else its dollar VALUE rows, so *)
(* that for the same records and year a state's map value equals the sum of *)
(* the per-category values getTopCrops would compute for that state.        *)
C26_MapResolvesRevenueLikeTopCrops ==
    (called.op = "getMapData" /\ args.metric = "SALES") =>
        \A st \in {data[i].state_alpha : i \in 1..Len(data)} \ {"US"} :
            (IF st \in DOMAIN output THEN output[st] ELSE 0)
                = TopCropsTotal(data, st, args.year, "SALES")

\* a state whose only revenue row is a dollar PRODUCTION row has no map entry
C26_Witness ==
    /\ called.op = "getMapData"
    /\ args = [year |-> 2020, metric |-> "SALES"]
    /\ data = <<[RevenueRecord("CORN", 2020, "PRODUCTION") EXCEPT !.state_alpha = "TX"]>>
    /\ output = <<>>
    /\ TopCropsTotal(data, "TX", 2020, "SALES") = 30000

-----------------------------------------------------------------------------
(* Statements about the years of getLandUseTrends *)

(* C27: the series returned by getLandUseTrends contains a year if and only *)
(* if the planted sum or the harvested sum over the paired categories is    *)
(* positive for that year, contains each year at most once, and is in       *)
(* ascending year order.                                                    *)
C27_YearsWithPositiveSums ==
    called = "getLandUseTrends" =>
        LET clean == filterData(data)
            both == Reporting(clean, "AREA PLANTED")
                        \cap Reporting(clean, "AREA HARVESTED")
            returned == {output.trends[i].year : i \in 1..Len(output.trends)}
        IN  /\ \A y \in Years \cup returned :
                y \in returned <=>
                    \/ AreaSum(clean, both, y, "AREA PLANTED") > 0
                    \/ AreaSum(clean, both, y, "AREA HARVESTED") > 0
            /\ \A i \in 1..Len(output.trends) - 1 :
                output.trends[i].year < output.trends[i + 1].year

\* a paired category with a harvest in 2021 and only a suppressed planted
\* area in 2020: 2020 has rows of a paired category and no point
C27_Witness ==
    /\ called = "getLandUseTrends"
    /\ Len(data) = 2
    /\ data[1] = LandRow("SOY", "AREA HARVESTED", 2021, 50)
    /\ data[2].year = 2020
    /\ data[2].commodity_desc = "SOY"
    /\ data[2].statisticcat_desc = "AREA PLANTED"
    /\ output.pairedCropCount = 1
    /\ output.trends = <<[year |-> 2021, planted |-> 0, harvested |-> 50]>>

-----------------------------------------------------------------------------
(* The calls of getBoomCrops on tables of more than ten categories: nine    *)
(* categories that start at 100000 and grow by 10% to 90%, and up to        *)
(* MaxExtraCrops categories with any of the cells below                     *)

MaxExtraCrops == 2

SteadyNames == <<"CORN", "SOY", "WHEAT", "HAY", "RYE", "OATS", "RICE", "HOPS", "MINT">>

ExtraNames == <<"FLAX", "PEAS", "TARO", "DILL", "KALE">>

ExtraStartCells == {<<>>, <<20000>>, <<30000>>, <<200000>>}
ExtraEndCells == {<<>>, <<0>>, <<150000>>}

SteadyRows ==
    Flatten([i \in 1..Len(SteadyNames) |->
        BoomRow(SteadyNames[i], 2020, <<100000>>)
            \o BoomRow(SteadyNames[i], 2021, <<100000 + 10000 * i>>)])

ExtraRows(n, v2020, v2021) ==
    Flatten([i \in 1..n |->
        BoomRow(ExtraNames[i], 2020, v2020[i]) \o BoomRow(ExtraNames[i], 2021, v2021[i])])

InitBoomTop ==
    /\ \E n \in 1..MaxExtraCrops :
        \E v2020 \in [1..n -> ExtraStartCells], v2021 \in [1..n -> ExtraEndCells] :
            data = ExtraRows(n, v2020, v2021) \o SteadyRows
    /\ args = <<>>
    /\ called = "none"
    /\ output = <<>>

NextBoomTop == CallGetBoomCrops({"AREA HARVESTED"}, {2021})

SpecBoomTop == InitBoomTop /\ [][NextBoomTop]_vars

-----------------------------------------------------------------------------
(* Statements about the result of getBoomCrops *)

\* v exceeds the dynamic threshold: the floor 10000 and a quarter of the
\* value at position floor(n / 2) of the n positive start-year aggregates P
AboveThreshold(v, P) ==
    /\ v > 10000
    /\ \A m \in UpperMedians(P) : 4 * v > m

\* the categories with an aggregate in both years, a positive end value and
\* a start value above the threshold, each with its two values
Eligible(starts, ends) ==
    {[commodity |-> p[1], start |-> p[2], end |-> e[2]] :
        <<p, e>> \in {pe \in starts \X ends :
            /\ pe[1][1] = pe[2][1]
            /\ pe[2][2] > 0
            /\ AboveThreshold(pe[1][2], {q \in starts : q[2] > 0})}}

\* (end - start) / start * 100
GrowthOf(e) == Frac((e.end - e.start) * 100, e.start)

(* C28: getBoomCrops returns, sorted by growth descending and cut to the    *)
(* first 10, exactly the categories that have an aggregate in both years, a *)
(* positive end-year value and a start-year value above the threshold; each *)
(* returned entry has growth = (end - start) / start * 100 computed from    *)
(* the start and end values it reports, and each category appears at most   *)
(* once.                                                                    *)
C28_ExactlyAdmittedSortedCut ==
    called = "getBoomCrops" =>
        LET clean == filterData(data)
            eligible == Eligible(Aggregates(clean, args.startYear, args.metric),
                                 Aggregates(clean, args.endYear, args.metric))
            returned == {[commodity |-> output[i].commodity,
                          start |-> output[i].start,
                          end |-> output[i].end] : i \in 1..Len(output)}
        IN  /\ returned \subseteq eligible
            /\ Len(output) = IF Cardinality(eligible) > 10 THEN 10
                             ELSE Cardinality(eligible)
            /\ \A i, j \in 1..Len(output) :
                   i # j => output[i].commodity # output[j].commodity
            /\ \A i \in 1..Len(output) :
                   output[i].growth =
                       Frac((output[i].end - output[i].start) * 100, output[i].start)
            /\ \A i \in 1..Len(output) - 1 :
                   ~FracLess(output[i].growth, output[i + 1].growth)
            /\ \A e \in eligible \ returned : \A i \in 1..Len(output) :
                   ~FracLess(output[i].growth, GrowthOf(e))

\* eleven categories qualify: the ten of highest growth are returned, the
\* one that grew by 10% is cut
C28_Witness ==
    /\ called = "getBoomCrops"
    /\ args.startYear = 2020
    /\ data = ExtraRows(2, <<<<30000>>, <<30000>>>>, <<<<150000>>, <<150000>>>>)
                  \o SteadyRows
    /\ Len(output) = 10
    /\ output[1] = [commodity |-> "FLAX", growth |-> Frac(400, 1),
                    start |-> 30000, end |-> 150000]
    /\ output[2].commodity = "PEAS"
    /\ output[10].commodity = "SOY"
    /\ \A i \in 1..10 : output[i].commodity # "CORN"

-----------------------------------------------------------------------------
(* Statements about filterData applied again *)

(* C29: filterData is idempotent: for every record collection x,            *)
(* filterData(filterData(x)) contains the same records in the same order as *)
(* filterData(x), and every record of filterData(x) is a record of x        *)
(* occurring no more often than in x (the filter never creates or           *)
(* duplicates records).                                                     *)
C29_FilterIdempotent ==
    called = "filterData" =>
        /\ filterData(output) = output
        /\ \A r \in RowsOf(output) :
               /\ r \in RowsOf(data)
               /\ Occurrences(output, r) <= Occurrences(data, r)

\* rows of two keys, one key with a SURVEY and a CENSUS row: the result is
\* shorter than the input and filtering it again changes nothing
C29_Witness ==
    /\ called = "filterData"
    /\ data = <<BaseRecord, [BaseRecord EXCEPT !.year = 2021],
                [BaseRecord EXCEPT !.year = 2021, !.source_desc = "CENSUS"]>>
    /\ output = <<BaseRecord, [BaseRecord EXCEPT !.year = 2021]>>
    /\ filterData(output) = output

-----------------------------------------------------------------------------
(* Statements about the years of getCommodityStory *)

\* the years with a crops-sector row of the commodity among the filtered rows
CropsYears(clean, commodity) ==
    {clean[i].year : i \in {j \in 1..Len(clean) :
        clean[j].commodity_desc = commodity /\ clean[j].sector_desc = "CROPS"}}

\* the years whose largest $ SALES value of the commodity, any sector, is
\* positive
RevenueYears(clean, commodity) ==
    {y \in YearsOf(clean) : MaxOf(SalesValues(clean, commodity, y, Sectors)) > 0}

\* the AREA PLANTED sum of the commodity in the year over all sectors
PlantedSum(clean, commodity, year) ==
    SumValues(SelectSeq(clean,
        LAMBDA r : /\ r.commodity_desc = commodity
                   /\ r.year = year
                   /\ r.statisticcat_desc = "AREA PLANTED"))

\* the story holds exactly the crops years and the revenue years, each once
StoryYearsAreUnion(clean) ==
    /\ {output.story[i].year : i \in 1..Len(output.story)} =
           CropsYears(clean, args.commodity) \cup RevenueYears(clean, args.commodity)
    /\ \A i, j \in 1..Len(output.story) :
           i # j => output.story[i].year # output.story[j].year

\* the points of the years without a crops-sector row
RevenueOnlyPoints(clean) ==
    {output.story[i] : i \in {j \in 1..Len(output.story) :
        output.story[j].year \notin CropsYears(clean, args.commodity)}}

(* C30 as stated: the set of years in the story returned by                 *)
(* getCommodityStory is exactly the union of the years that have any        *)
(* crops-sector record for the commodity and the years that have positive   *)
(* dollar SALES revenue for the commodity in any sector, each year          *)
(* appearing once; a year that has only an area-planted record outside the  *)
(* crops sector produces no story point, and a year added for revenue alone *)
(* has production, yield, area harvested and area planted equal to 0.       *)
C30_RevenueOnlyYearAllZero ==
    called = "getCommodityStory" =>
        LET clean == filterData(data)
        IN  /\ StoryYearsAreUnion(clean)
            /\ \A pt \in RevenueOnlyPoints(clean) :
                   /\ pt.production = 0
                   /\ pt.yield.num = 0
                   /\ pt.areaHarvested = 0
                   /\ pt.areaPlanted = 0

(* C30 amended: the years of the story are exactly that union, each once;   *)
(* a year added for revenue alone has production, yield and area harvested  *)
(* equal to 0, and its area planted is the year's AREA PLANTED sum over the *)
(* records of all sectors when that sum is positive, else 0.                *)
C30_StoryYears ==
    called = "getCommodityStory" =>
        LET clean == filterData(data)
        IN  /\ StoryYearsAreUnion(clean)
            /\ \A pt \in RevenueOnlyPoints(clean) :
                   /\ pt.production = 0
                   /\ pt.yield.num = 0
                   /\ pt.areaHarvested = 0
                   /\ pt.areaPlanted =
                          IF PlantedSum(clean, args.commodity, pt.year) > 0
                          THEN PlantedSum(clean, args.commodity, pt.year)
                          ELSE 0

\* revenue of 2020 and 2021 and an area planted of 2020, all outside the
\* crops sector: 2020 takes the area planted, 2021 has none
C30_Witness ==
    /\ called = "getCommodityStory"
    /\ args.commodity = "CORN"
    /\ data = <<StoryRecord("CORN", 2021, "ECONOMICS", "SALES", "$", 50),
                StoryRecord("CORN", 2020, "ECONOMICS", "AREA PLANTED", "ACRES", 25),
                StoryRecord("CORN", 2020, "ECONOMICS", "SALES", "$", 50)>>
    /\ Len(output.story) = 2
    /\ output.story[1].year = 2020 /\ output.story[1].areaPlanted = 25
    /\ output.story[2].year = 2021 /\ output.story[2].areaPlanted = 0

====
